---------------------------- MODULE Spec2Model ----------------------------
(***************************************************************************)
(* Financial Decision-Support System: the preference-conditioned analysis  *)
(* pipeline (query_data_dss.py), the metrics engine (financial_data.py)    *)
(* and the preference interpreter (preference_engine.py).                  *)
(*                                                                         *)
(* Text is modelled as data.  A line is a sequence of tokens; a token is   *)
(* a word or a formatted number.  Substring tests of the source ("x" in    *)
(* line) are contiguous-subsequence tests on tokens, strip() removes       *)
(* leading and trailing whitespace tokens.  Free text returned by a        *)
(* language model is modelled by its shape: leading whitespace, body and   *)
(* trailing whitespace lengths in characters.                              *)
(* Numbers with decimals are fixed point: percentages are held in          *)
(* hundredths of a percent (1500 = 15.00%).                                *)
(***************************************************************************)
EXTENDS Integers, Sequences, FiniteSets, TLC

VARIABLES
    pc,              \* position of the request in its entry point
    query,           \* [text, ticker]: query_text and ticker
    prefs,           \* preferences dict: [risk_tolerance, time_horizon, risk_behavior]
    use_rules,       \* use_rules argument
    chroma_exists,   \* os.path.exists(CHROMA_PATH)
    index,           \* passages held by the vector index (empty when absent)
    market,          \* what the market-data service answered: [kind, close, volume, info, ...]
    stock_summary,   \* Option: <<>> is None, <<s>> a summary dict
    rules_context,   \* rules block text (sequence of lines, <<>> is "")
    sources,         \* local list `sources` of query_financial_dss
    found,           \* Option: local `docs` of retrieve_rules, None until the search returns
    retrieved,       \* Option: the pair returned by retrieve_rules
    db,              \* handle to the vector index: "none", "open", "released"
    prompt,          \* assembled prompt (sequence of lines)
    ollama,          \* result of check_ollama_running: [running, models]
    llm_response,    \* Option: local `response` of query_llm_with_dss_prompt, [from, text]
    tier,            \* outcome per tier: [primary, secondary, fallback]
    response,        \* Option: [tier, text] returned by query_llm_with_dss_prompt
    result,          \* Option: value returned by the entry point
    calls,           \* external calls made so far, in order
    escaped,         \* TRUE iff an exception escaped the entry point
    metric,          \* explain request/answer of the preference interpreter
    guidance,        \* Option: [context, text] handed back by the preference interpreter
    financial_context,  \* local `financial_context`: the narrative of format_for_llm
    scan,            \* the recovery loop of _compute_risk_metrics: [t, st, avg]
    reqs,            \* concurrent requests: request -> the locals of its query_financial_dss
    engines          \* PreferenceEngine instances: instance -> Option of its fields

vars == << pc, query, prefs, use_rules, chroma_exists, index, market, stock_summary,
           rules_context, sources, found, retrieved, db, prompt,
           ollama, llm_response, tier, response, result, calls,
           escaped, metric, guidance, financial_context, scan, reqs, engines >>

-----------------------------------------------------------------------------
(* Generic helpers *)

None == << >>
Some(v) == << v >>
IsNone(o) == o = << >>
Get(o) == o[1]

Range(s) == { s[i] : i \in 1..Len(s) }

SeqsUpTo(S, n) == UNION { [1..k -> S] : k \in 0..n }

-----------------------------------------------------------------------------
(* Text *)

W(s) == [t |-> s, n |-> 0]          \* a word / punctuation token
N(fmt, v) == [t |-> fmt, n |-> v]   \* a number printed with format fmt
SP == W(" ")                        \* whitespace (indentation)

Words(ws) == [i \in 1..Len(ws) |-> W(ws[i])]

IsSpace(tok) == tok = SP

\* "pat in line"
Contains(line, pat) ==
    \E i \in 1..(Len(line) - Len(pat) + 1) : SubSeq(line, i, i + Len(pat) - 1) = pat

RECURSIVE LStrip(_)
LStrip(line) == IF line # << >> /\ IsSpace(Head(line)) THEN LStrip(Tail(line)) ELSE line

RECURSIVE RStrip(_)
RStrip(line) ==
    IF line # << >> /\ IsSpace(line[Len(line)])
    THEN RStrip(SubSeq(line, 1, Len(line) - 1)) ELSE line

\* str.strip() of one line
StripLine(line) == RStrip(LStrip(line))

\* free text by shape: `lead` whitespace chars, `body` chars that start and end
\* with a non-whitespace char, `trail` whitespace chars
Chars(lead, body, trail) ==
    [kind |-> "chars", lead |-> lead, body |-> body, trail |-> trail, lines |-> << >>]
\* text given line by line ("\n".join(lines))
Lines(ls) == [kind |-> "lines", lead |-> 0, body |-> 0, trail |-> 0, lines |-> ls]

\* str.strip() of free text; a text of whitespace only strips to ""
StripText(txt) == Chars(0, txt.body, 0)

\* len(text) for free text
CharLen(txt) == txt.lead + txt.body + txt.trail

\* the string "": split on newlines it is one empty line
EmptyStr == << << >> >>
\* "\n"
Newline == << << >>, << >> >>

\* text == ""
IsEmptyText(txt) ==
    IF txt.kind = "chars" THEN CharLen(txt) = 0 ELSE txt.lines = EmptyStr

\* x + y for strings held as line sequences: the last line of x continues with
\* the first line of y
Cat(x, y) == SubSeq(x, 1, Len(x) - 1) \o << x[Len(x)] \o y[1] >> \o Tail(y)

RECURSIVE CatAll(_)
CatAll(xs) == IF xs = << >> THEN EmptyStr ELSE Cat(Head(xs), CatAll(Tail(xs)))

\* one line of text made of the given words
Str(ws) == << Words(ws) >>

RECURSIVE JoinLines(_)
\* "\n".join(parts), each part a string
JoinLines(parts) ==
    IF parts = << >> THEN EmptyStr
    ELSE IF Len(parts) = 1 THEN Head(parts)
    ELSE CatAll(<< Head(parts), Newline, JoinLines(Tail(parts)) >>)

IsBlankLine(line) == StripLine(line) = << >>

RECURSIVE DropBlankHead(_)
DropBlankHead(x) ==
    IF Len(x) > 1 /\ IsBlankLine(Head(x)) THEN DropBlankHead(Tail(x)) ELSE x

RECURSIVE DropBlankTail(_)
DropBlankTail(x) ==
    IF Len(x) > 1 /\ IsBlankLine(x[Len(x)])
    THEN DropBlankTail(SubSeq(x, 1, Len(x) - 1)) ELSE x

\* str.strip() of a string of several lines
StripStr(x) ==
    LET y == DropBlankTail(DropBlankHead(x))
    IN IF Len(y) = 1 THEN << StripLine(y[1]) >>
       ELSE << LStrip(y[1]) >> \o SubSeq(y, 2, Len(y) - 1) \o << RStrip(y[Len(y)]) >>

-----------------------------------------------------------------------------
(* Metrics engine: financial_data.py *)

\* a float: a number in fixed point, or NaN
Num(v) == [nan |-> FALSE, v |-> v]
NaN == [nan |-> TRUE, v |-> 0]
\* a < b on floats: every comparison with NaN is false
FLt(a, b) == ~a.nan /\ ~b.nan /\ a.v < b.v

\* a / b rounded to the nearest integer, halves to even (Python's round), b > 0
RoundDiv(a, b) ==
    LET q == a \div b
        r == a % b
    IN IF 2 * r < b THEN q
       ELSE IF 2 * r > b THEN q + 1
       ELSE IF q % 2 = 0 THEN q ELSE q + 1

\* round(x, ndigits) of a float held in units 10 times finer than the result
RoundFloat10(x) == IF x.nan THEN NaN ELSE Num(RoundDiv(x.v, 10))

LowVolatility == 15
HighVolatility == 25
\* percent to hundredths of a percent
Pct(n) == 100 * n

\* faulty variant: the boundaries belong to the lower band
RiskClass_Closed(volatility) ==
    IF volatility.nan THEN "High"
    ELSE IF volatility.v <= Pct(LowVolatility) THEN "Low"
    ELSE IF volatility.v <= Pct(HighVolatility) THEN "Moderate"
    ELSE "High"
\* lines 106-112: risk classification of the (unrounded) annualized volatility
RiskClass(volatility) ==
    IF FLt(volatility, Num(Pct(LowVolatility))) THEN "Low"
    ELSE IF FLt(volatility, Num(Pct(HighVolatility))) THEN "Moderate"
    ELSE "High"

\* prices.iloc[-k]: None stands for IndexError
ILocBack(prices, k) ==
    IF k >= 1 /\ k <= Len(prices) THEN Some(prices[Len(prices) - k + 1]) ELSE None

Window1m == 21
Window3m == 63
Window6m == 126
Window1y == 252
Windows == { Window1m, Window3m, Window6m, Window1y }

\* ((a / b) - 1) * 100 rounded to 2 decimals, in hundredths of a percent
PctChange2(a, b) == RoundDiv((a - b) * 10000, b)

\* faulty variant: a short history is measured from its first price
PeriodReturn_Partial(prices, days) ==
    IF Len(prices) >= days
    THEN Some(PctChange2(Get(ILocBack(prices, 1)), Get(ILocBack(prices, days))))
    ELSE IF Len(prices) >= 1
         THEN Some(PctChange2(Get(ILocBack(prices, 1)), prices[1]))
    ELSE None
\* lines 136-141: the trailing return over `days` samples, None when the history
\* is shorter
PeriodReturn(prices, days) ==
    IF Len(prices) >= days
    THEN Some(PctChange2(Get(ILocBack(prices, 1)), Get(ILocBack(prices, days))))
    ELSE None

\* lines 144-153: return relative to the benchmark; spy = [kind, len, annual, ...]
VsMarket(prices, spy) ==
    IF spy.kind = "raise" THEN None
    ELSE IF spy.len >= Window1y /\ Len(prices) >= Window1y
         THEN Some(PctChange2(Get(ILocBack(prices, 1)), Get(ILocBack(prices, Window1y)))
                   - spy.annual)
         ELSE None

\* lines 123-161
compute_performance(prices, spy) ==
    [return_1m |-> PeriodReturn(prices, Window1m),
     return_3m |-> PeriodReturn(prices, Window3m),
     return_6m |-> PeriodReturn(prices, Window6m),
     return_1y |-> PeriodReturn(prices, Window1y),
     vs_sp500_1y |-> VsMarket(prices, spy)]

\* number of daily returns: pct_change().dropna()
NumReturns(close) == IF Len(close) > 0 THEN Len(close) - 1 ELSE 0

\* line 67: std of fewer than two returns is NaN; otherwise the value numpy
\* computes, which is taken from the environment (hundredths of a percent)
Volatility(close, std_pct) == IF NumReturns(close) < 2 THEN NaN ELSE Num(std_pct)

\* lines 70-73 and 95-102: one turn of the loop over the drawdown series. The
\* series has one sample per daily return: sample i (0-based, as enumerate
\* counts) belongs to close[i + 2]; the running peak is taken over the closes
\* that have a return. st = [peak, min, in_drawdown, start, periods]; drawdowns
\* in tenths of a percent
\* faulty variant: a sample below -5% restarts an episode that is still open
ScanStep_Restart(close, t, st) ==
    LET peak == IF close[t] > st.peak THEN close[t] ELSE st.peak
        i == t - 2
        below5 == (close[t] - peak) * 100 < (0 - 5) * peak
        within1 == (close[t] - peak) * 100 >= (0 - 1) * peak
        dd == RoundDiv((close[t] - peak) * 1000, peak)
        opens == below5
        closes == ~opens /\ within1 /\ st.in_drawdown
    IN [peak |-> peak,
        min |-> IF dd < st.min THEN dd ELSE st.min,
        in_drawdown |-> IF opens THEN TRUE
                        ELSE IF closes THEN FALSE ELSE st.in_drawdown,
        start |-> IF opens THEN i ELSE st.start,
        periods |-> IF closes THEN Append(st.periods, i - st.start) ELSE st.periods]
ScanStep(close, t, st) ==
    LET peak == IF close[t] > st.peak THEN close[t] ELSE st.peak
        i == t - 2
        below5 == (close[t] - peak) * 100 < (0 - 5) * peak
        within1 == (close[t] - peak) * 100 >= (0 - 1) * peak
        dd == RoundDiv((close[t] - peak) * 1000, peak)
        opens == below5 /\ ~st.in_drawdown
        closes == ~opens /\ within1 /\ st.in_drawdown
    IN [peak |-> peak,
        min |-> IF dd < st.min THEN dd ELSE st.min,
        in_drawdown |-> IF opens THEN TRUE
                        ELSE IF closes THEN FALSE ELSE st.in_drawdown,
        start |-> IF opens THEN i ELSE st.start,
        periods |-> IF closes THEN Append(st.periods, i - st.start) ELSE st.periods]

RECURSIVE ScanDrawdown(_, _, _, _)
\* the loop over close[t..last]; a long stretch is scanned half by half (the
\* test on the peak, which is never negative, makes the first half's state be
\* computed before the second half starts)
ScanDrawdown(close, t, last, st) ==
    IF t > last THEN st
    ELSE IF t = last THEN ScanStep(close, t, st)
    ELSE LET mid == (t + last) \div 2
             half == ScanDrawdown(close, t, mid, st)
         IN IF half.peak >= 0 THEN ScanDrawdown(close, mid + 1, last, half) ELSE half

\* lines 91-93: the state before the first sample
ScanStart == [peak |-> 0, min |-> 0, in_drawdown |-> FALSE, start |-> 0, periods |-> << >>]

DrawdownScan(close) == ScanDrawdown(close, 2, Len(close), ScanStart)

RECURSIVE SumRange(_, _, _)
\* s[a] + ... + s[b], summed half by half
SumRange(s, a, b) ==
    IF a > b THEN 0
    ELSE IF a = b THEN s[a]
    ELSE SumRange(s, a, (a + b) \div 2) + SumRange(s, (a + b) \div 2 + 1, b)

SumSeq(s) == SumRange(s, 1, Len(s))

\* line 73: drawdown.min() * 100, rounded to 1 decimal (tenths of a percent)
MaxDrawdown(close) ==
    IF NumReturns(close) = 0 THEN NaN ELSE Num(DrawdownScan(close).min)

\* line 104: int(np.mean(recovery_periods)) if recovery_periods else None
AvgRecoveryDays(close) ==
    LET ps == DrawdownScan(close).periods
    IN IF ps = << >> THEN None ELSE Some(SumSeq(ps) \div Len(ps))

\* line 120: days whose return is beyond 5% either way
SharpMoves(close) ==
    Cardinality({ t \in 2..Len(close) :
        \/ (close[t] - close[t - 1]) * 100 > 5 * close[t - 1]
        \/ (close[t - 1] - close[t]) * 100 > 5 * close[t - 1] })

\* lines 76-88 and 117: spy = [kind, var_positive, ratio]; ratio is
\* covariance / variance in thousandths. `round(beta, 2) if beta else None`
Beta(spy) ==
    IF spy.kind = "raise" THEN None
    ELSE LET beta == IF spy.var_positive THEN spy.ratio ELSE 1000
         IN IF beta # 0 THEN Some(RoundDiv(beta, 10)) ELSE None

\* lines 62-121
compute_risk_metrics(close, std_pct, spy) ==
    [volatility_annual |-> RoundFloat10(Volatility(close, std_pct)),
     max_drawdown |-> MaxDrawdown(close),
     beta |-> Beta(spy),
     avg_recovery_days |-> AvgRecoveryDays(close),
     risk_classification |-> RiskClass(Volatility(close, std_pct)),
     sharp_moves_count |-> SharpMoves(close)]

\* the sum of s.iloc[-from:-to] (to = 0: up to the end)
SumBack(s, from, to) == SumRange(s, Len(s) - from + 1, Len(s) - to)

\* faulty variant: the band is open, its two boundaries count as outside
PriceTrend_Closed(close) ==
    IF Len(close) >= 126
    THEN LET recent == SumBack(close, 63, 0)
             prior == SumBack(close, 126, 63)
         IN IF recent * 100 >= prior * 105 THEN "rising"
            ELSE IF recent * 100 <= prior * 95 THEN "declining"
            ELSE "stable"
    ELSE "insufficient_data"
\* lines 169-180: mean of the last 63 closes against the 63 before them
PriceTrend(close) ==
    IF Len(close) >= 126
    THEN LET recent == SumBack(close, 63, 0)
             prior == SumBack(close, 126, 63)
         IN IF recent * 100 > prior * 105 THEN "rising"
            ELSE IF recent * 100 < prior * 95 THEN "declining"
            ELSE "stable"
    ELSE "insufficient_data"

\* lines 183-194: mean of the last 21 volumes against the 42 before them
VolumeTrend(volume) ==
    IF Len(volume) >= 63
    THEN LET recent == SumBack(volume, 21, 0)
             prior == SumBack(volume, 63, 21)
         IN IF recent * 42 * 10 > prior * 21 * 12 THEN "increasing"
            ELSE IF recent * 42 * 10 < prior * 21 * 8 THEN "decreasing"
            ELSE "stable"
    ELSE "insufficient_data"

\* lines 197-208: last close against the mean of the last 50
SmaPosition(close) ==
    IF Len(close) >= 50
    THEN LET total == SumBack(close, 50, 0)
             current == close[Len(close)]
         IN IF current * 50 * 100 > total * 102 THEN "above"
            ELSE IF current * 50 * 100 < total * 98 THEN "below"
            ELSE "near"
    ELSE "insufficient_data"

\* lines 163-214
analyze_trends(close, volume) ==
    [price_trend_3m |-> PriceTrend(close),
     volume_trend |-> VolumeTrend(volume),
     position_vs_50day_avg |-> SmaPosition(close)]

\* price histories by shape and length
Price(shape, i) ==
    CASE shape = "flat" -> 100
      [] shape = "rise" -> 100 + i
      [] shape = "slide" -> 400 - i
      [] shape = "dip" -> IF i % 10 \in { 4, 5 } THEN 90 ELSE 100
Volume(shape, i) ==
    CASE shape = "flat" -> 1000
      [] shape = "rise" -> 1000 + 10 * i
      [] shape = "slide" -> 2000 - 5 * i
      [] shape = "dip" -> IF i % 10 \in { 4, 5 } THEN 3000 ELSE 1000
MakeHist(shape, n) ==
    [close |-> [i \in 1..n |-> Price(shape, i)],
     volume |-> [i \in 1..n |-> Volume(shape, i)]]

InfoKnown == [sector |-> "Technology", industry |-> "Consumer Electronics",
              dividendYield |-> 50]
InfoUnknown == [sector |-> "Unknown", industry |-> "Unknown", dividendYield |-> 0]

SpyRaise == [kind |-> "raise", len |-> 0, annual |-> 0, var_positive |-> FALSE, ratio |-> 0]
SpyOk(len, annual, var_positive, ratio) ==
    [kind |-> "ok", len |-> len, annual |-> annual, var_positive |-> var_positive,
     ratio |-> ratio]

MarketRaise ==
    [kind |-> "raise", close |-> << >>, volume |-> << >>, info |-> InfoUnknown,
     std_pct |-> 0, spy_risk |-> SpyRaise, spy_perf |-> SpyRaise]
MarketOk(h, info, std_pct, spy_risk, spy_perf) ==
    [kind |-> "ok", close |-> h.close, volume |-> h.volume, info |-> info,
     std_pct |-> std_pct, spy_risk |-> spy_risk, spy_perf |-> spy_perf]
\* line 29: the history was fetched and stock.info raised
MarketInfoRaise(h) ==
    [kind |-> "info_raise", close |-> h.close, volume |-> h.volume, info |-> InfoUnknown,
     std_pct |-> 0, spy_risk |-> SpyRaise, spy_perf |-> SpyRaise]
NoMarket ==
    [kind |-> "none", close |-> << >>, volume |-> << >>, info |-> InfoUnknown,
     std_pct |-> 0, spy_risk |-> SpyRaise, spy_perf |-> SpyRaise]

\* what the market-data service did for one ticker:
\*   kind: "raise" (Ticker / history raised), "info_raise" (info raised after
\*         the history was fetched) or "ok"
\*   close, volume: the price history (empty: unknown ticker)
\*   info: [sector, industry, dividendYield (hundredths of a percent, 0: absent)]
\*   std_pct: numpy's annualized volatility for this history
\*   spy_risk, spy_perf: the two benchmark fetches
Raises(m) == m.kind \in { "raise", "info_raise" }

\* lines 25-60: Some(summary), or None
SummaryOf(ticker, m) ==
    IF Raises(m) \/ Len(m.close) = 0 THEN None
    ELSE Some([ticker |-> ticker,
               basic_info |-> [sector |-> m.info.sector,
                               industry |-> m.info.industry,
                               current_price |-> m.close[Len(m.close)],
                               dividend_yield |-> m.info.dividendYield],
               risk_metrics |-> compute_risk_metrics(m.close, m.std_pct, m.spy_risk),
               performance |-> compute_performance(m.close, m.spy_perf),
               trends |-> analyze_trends(m.close, m.volume)])

\* faulty variant: the handler at line 58 is missing
get_stock_summary_Uncaught(ticker, m) ==
    [raised |-> Raises(m), value |-> SummaryOf(ticker, m)]
\* lines 14-60: [raised, value]; every exception is caught at line 58
get_stock_summary(ticker, m) == [raised |-> FALSE, value |-> SummaryOf(ticker, m)]

-----------------------------------------------------------------------------
(* Preference interpreter: preference_engine.py *)

RiskTolerances == { "Low", "Medium", "High" }
TimeHorizons == { "Short-term (<1yr)", "Long-term (>1yr)" }
RiskBehaviors == { "Risk-averse", "Risk-seeking" }
\* the 12 preference vectors
PreferenceVectors ==
    [risk_tolerance : RiskTolerances, time_horizon : TimeHorizons,
     risk_behavior : RiskBehaviors]

\* lines 29-48
volatility_frames(rt) ==
    CASE rt = "Low" ->
           [emphasis |-> "downside protection and capital preservation",
            concern_language |-> "risk exposure, potential losses, drawdown severity",
            positive_language |-> "stability, predictability, preservation",
            threshold_view |-> "conservative risk bounds"]
      [] rt = "Medium" ->
           [emphasis |-> "balanced growth with managed volatility",
            concern_language |-> "portfolio fluctuations, risk-adjusted returns",
            positive_language |-> "growth opportunities, reasonable stability",
            threshold_view |-> "moderate risk tolerance"]
      [] rt = "High" ->
           [emphasis |-> "return potential and growth opportunities",
            concern_language |-> "opportunity cost, market dynamics",
            positive_language |-> "upside capture, aggressive growth, market opportunities",
            threshold_view |-> "elevated risk acceptance"]

\* lines 51-64
time_frames(th) ==
    CASE th = "Short-term (<1yr)" ->
           [data_focus |-> "recent 3-6 month trends and near-term momentum",
            volatility_impact |-> "near-term price fluctuations and liquidity",
            recovery_concern |-> "short recovery windows are critical",
            relevant_metrics |-> "recent performance, current trends"]
      [] th = "Long-term (>1yr)" ->
           [data_focus |-> "multi-year patterns and fundamental stability",
            volatility_impact |-> "long-term trajectory smooths short-term noise",
            recovery_concern |-> "extended recovery periods are acceptable",
            relevant_metrics |-> "sustained trends, sector fundamentals"]

\* lines 67-80
behavior_frames(rb) ==
    CASE rb = "Risk-averse" ->
           [perspective |-> "conservative with emphasis on protection",
            decision_frame |-> "what could go wrong and how to avoid losses",
            uncertainty_view |-> "threats to be mitigated",
            trade_off_priority |-> "safety over growth"]
      [] rb = "Risk-seeking" ->
           [perspective |-> "opportunistic with emphasis on potential",
            decision_frame |-> "what upside exists and how to capture gains",
            uncertainty_view |-> "opportunities to be seized",
            trade_off_priority |-> "growth over safety"]

\* faulty variant: the trade-off priority of a low risk tolerance is special-cased
get_interpretive_context_CrossAxis(pv) ==
    [volatility_emphasis |-> volatility_frames(pv.risk_tolerance).emphasis,
     concern_language |-> volatility_frames(pv.risk_tolerance).concern_language,
     positive_language |-> volatility_frames(pv.risk_tolerance).positive_language,
     data_focus |-> time_frames(pv.time_horizon).data_focus,
     volatility_interpretation |-> time_frames(pv.time_horizon).volatility_impact,
     recovery_perspective |-> time_frames(pv.time_horizon).recovery_concern,
     analysis_perspective |-> behavior_frames(pv.risk_behavior).perspective,
     decision_framing |-> behavior_frames(pv.risk_behavior).decision_frame,
     trade_off_priority |-> IF pv.risk_tolerance = "Low" THEN "safety over growth"
                            ELSE behavior_frames(pv.risk_behavior).trade_off_priority]
\* lines 82-101
get_interpretive_context(pv) ==
    [volatility_emphasis |-> volatility_frames(pv.risk_tolerance).emphasis,
     concern_language |-> volatility_frames(pv.risk_tolerance).concern_language,
     positive_language |-> volatility_frames(pv.risk_tolerance).positive_language,
     data_focus |-> time_frames(pv.time_horizon).data_focus,
     volatility_interpretation |-> time_frames(pv.time_horizon).volatility_impact,
     recovery_perspective |-> time_frames(pv.time_horizon).recovery_concern,
     analysis_perspective |-> behavior_frames(pv.risk_behavior).perspective,
     decision_framing |-> behavior_frames(pv.risk_behavior).decision_frame,
     trade_off_priority |-> behavior_frames(pv.risk_behavior).trade_off_priority]

\* str.lower() of the preference values
Lower(v) ==
    CASE v = "Low" -> "low" [] v = "Medium" -> "medium" [] v = "High" -> "high"
      [] v = "Short-term (<1yr)" -> "short-term (<1yr)"
      [] v = "Long-term (>1yr)" -> "long-term (>1yr)"
      [] v = "Risk-averse" -> "risk-averse"
      [] v = "Risk-seeking" -> "risk-seeking"

\* lines 103-136: the guidance text, line by line
get_prompt_guidance(pv) ==
    LET context == get_interpretive_context(pv)
    IN << << >>,
          Words(<< "PREFERENCE-DRIVEN ANALYSIS GUIDANCE:" >>),
          << >>,
          Words(<< "Risk Profile Context:" >>),
          Words(<< "- The user has", Lower(pv.risk_tolerance), "risk tolerance with",
                   Lower(pv.risk_behavior), "behavior" >>),
          Words(<< "- Frame volatility and uncertainty in terms of:",
                   context.volatility_emphasis >>),
          Words(<< "- When discussing risks, emphasize:", context.concern_language >>),
          Words(<< "- When discussing opportunities, emphasize:",
                   context.positive_language >>),
          Words(<< "- Trade-off priority:", context.trade_off_priority >>),
          << >>,
          Words(<< "Time Horizon Context:" >>),
          Words(<< "- Investment horizon:", Lower(pv.time_horizon) >>),
          Words(<< "- Focus analysis on:", context.data_focus >>),
          Words(<< "- Interpret volatility as:", context.volatility_interpretation >>),
          Words(<< "- Recovery time perspective:", context.recovery_perspective >>),
          << >>,
          Words(<< "Analysis Perspective:" >>),
          Words(<< "- Adopt a", context.analysis_perspective, "viewpoint" >>),
          Words(<< "- Frame decision considerations around:", context.decision_framing >>),
          << >>,
          Words(<< "CRITICAL: These preferences should shape HOW you interpret and present data," >>),
          Words(<< "not just be restated. For example, the same 25", "%",
                   "volatility should be framed" >>),
          Words(<< "as \"significant downside risk\" for risk-averse users but \"opportunity for" >>),
          Words(<< "outsized returns\" for risk-seeking users. The data is the same; the" >>),
          Words(<< "interpretation changes based on user context." >>),
          << >> >>

\* a metric value: a float in hundredths
\* lines 158-184: f"{vol}% volatility ..."
interpret_volatility(pv, vol) ==
    LET shown == IF vol.nan THEN W("nan") ELSE N("repr", vol.v)
        low == FLt(vol, Num(Pct(15)))
        mid == FLt(vol, Num(Pct(25)))
    IN IF pv.risk_tolerance = "Low"
       THEN IF low THEN << shown, W("% volatility indicates stable, predictable behavior aligned with conservative objectives") >>
            ELSE IF mid THEN << shown, W("% volatility suggests price swings that may exceed comfort thresholds for capital preservation") >>
            ELSE << shown, W("% volatility represents substantial fluctuation risk unsuitable for conservative portfolios") >>
       ELSE IF pv.risk_tolerance = "High"
       THEN IF low THEN << shown, W("% volatility suggests limited price movement, constraining potential for aggressive returns") >>
            ELSE IF mid THEN << shown, W("% volatility provides meaningful opportunity for returns while remaining investable") >>
            ELSE << shown, W("% volatility creates significant return potential during favorable market phases") >>
       ELSE IF low THEN << shown, W("% volatility indicates low-risk behavior suitable for core holdings") >>
            ELSE IF mid THEN << shown, W("% volatility is typical for balanced growth strategies") >>
            ELSE << shown, W("% volatility exceeds typical balanced portfolio guidelines") >>

FAbs(x) == IF x.nan THEN NaN ELSE Num(IF x.v < 0 THEN 0 - x.v ELSE x.v)

\* lines 186-203: f"{dd:.1f}% maximum drawdown ..."
interpret_drawdown(pv, dd) ==
    LET shown == IF dd.nan THEN W("nan") ELSE N(".1f", RoundDiv(dd.v, 10))
        small == FLt(FAbs(dd), Num(Pct(10)))
        medium == FLt(FAbs(dd), Num(Pct(20)))
    IN IF pv.risk_behavior = "Risk-averse"
       THEN IF small THEN << shown, W("% maximum drawdown indicates limited downside exposure") >>
            ELSE IF medium THEN << shown, W("% maximum drawdown represents notable capital risk requiring consideration") >>
            ELSE << shown, W("% maximum drawdown signals severe downside exposure posing preservation challenges") >>
       ELSE IF small THEN << shown, W("% maximum drawdown suggests constrained volatility limiting return potential") >>
            ELSE IF medium THEN << shown, W("% maximum drawdown is typical for growth-oriented investments") >>
            ELSE << shown, W("% maximum drawdown indicates high volatility characteristic of aggressive positions") >>

\* lines 205-227: f"Beta of {beta:.2f} indicates {sensitivity}, ..."
interpret_beta(pv, beta) ==
    LET shown == IF beta.nan THEN W("nan") ELSE N(".2f", beta.v)
        below == FLt(beta, Num(80))
        like == FLt(beta, Num(120))
        sensitivity == IF below THEN "below-market volatility"
                       ELSE IF like THEN "market-like volatility"
                       ELSE "above-market volatility"
        start == << W("Beta of"), shown, W("indicates"), W(sensitivity) >>
    IN IF pv.risk_behavior = "Risk-averse"
       THEN IF below THEN start \o << W(", providing defensive characteristics") >>
            ELSE IF like THEN start \o << W(", tracking market movements closely") >>
            ELSE start \o << W(", amplifying market downturns") >>
       ELSE IF below THEN start \o << W(", limiting upside capture potential") >>
            ELSE IF like THEN start \o << W(", participating in market gains proportionally") >>
            ELSE start \o << W(", amplifying market upside") >>

\* lines 138-156
interpret_risk_metric(pv, metric_name, value) ==
    IF metric_name = "volatility" THEN interpret_volatility(pv, value)
    ELSE IF metric_name = "drawdown" THEN interpret_drawdown(pv, value)
    ELSE IF metric_name = "beta" THEN interpret_beta(pv, value)
    ELSE << W(metric_name), W(":"),
            IF value.nan THEN W("nan") ELSE N("repr", value.v) >>

-----------------------------------------------------------------------------
(* Narrative formatter: FinancialDataProvider.format_for_llm *)

\* lines 295-319; volatility is the rounded volatility_annual, in tenths
\* faulty variant: the sentence of the Medium branch whatever the tolerance
get_volatility_context_ToleranceBlind(volatility, risk_tolerance) ==
    LET low == FLt(volatility, Num(10 * LowVolatility))
        mid == FLt(volatility, Num(10 * HighVolatility))
    IN IF low THEN "This low volatility provides predictable behavior with limited downside"
       ELSE IF mid THEN "This moderate volatility is typical for diversified portfolios seeking balanced growth"
       ELSE "This high volatility exceeds typical balanced portfolio thresholds"

get_volatility_context(volatility, risk_tolerance) ==
    LET low == FLt(volatility, Num(10 * LowVolatility))
        mid == FLt(volatility, Num(10 * HighVolatility))
    IN IF risk_tolerance = "Low"
       THEN IF low THEN "This low volatility suggests stable price behavior suitable for conservative portfolios"
            ELSE IF mid THEN "This moderate volatility indicates notable price fluctuations that may exceed conservative risk thresholds"
            ELSE "This high volatility represents substantial price swings and significant downside risk"
       ELSE IF risk_tolerance = "High"
       THEN IF low THEN "This low volatility limits potential for outsized returns but provides stability"
            ELSE IF mid THEN "This moderate volatility offers balanced opportunity for returns with manageable swings"
            ELSE "This high volatility creates opportunities for significant returns during favorable market conditions"
       ELSE IF low THEN "This low volatility provides predictable behavior with limited downside"
            ELSE IF mid THEN "This moderate volatility is typical for diversified portfolios seeking balanced growth"
            ELSE "This high volatility exceeds typical balanced portfolio thresholds"

\* a float printed by an f-string
Shown(fmt, x) == IF x.nan THEN W("nan") ELSE N(fmt, x.v)

Abs(v) == IF v < 0 THEN 0 - v ELSE v

\* a section that is appended only when `cond` holds
When(cond, line) == IF cond THEN << line >> ELSE << >>

\* lines 237-245
BasicSection(basic) ==
    << Words(<< "BASIC INFORMATION:" >>),
       << SP, W("Sector"), W(":"), W(basic.sector) >>,
       << SP, W("Industry"), W(":"), W(basic.industry) >>,
       << SP, W("Current Price"), W(":"), W("$"), N("repr", basic.current_price) >> >>
    \o When(basic.dividend_yield > 0,
            << SP, W("Dividend Yield"), W(":"), N("repr", basic.dividend_yield), W("%") >>)
    \o << << >> >>

\* lines 247-268
RiskSection(risk, risk_tolerance) ==
    << Words(<< "RISK CHARACTERISTICS:" >>),
       << SP, W("Annualized"), W("Volatility"), W(":"),
          Shown("repr", risk.volatility_annual), W("%"), W("("),
          W(risk.risk_classification), W("risk)") >>,
       << SP, W("Context"), W(":"),
          W(get_volatility_context(risk.volatility_annual, risk_tolerance)) >>,
       << SP, W("Maximum Drawdown (period)"), W(":"),
          Shown("repr", risk.max_drawdown), W("%") >> >>
    \o When(risk.beta # None /\ risk.beta # Some(0),
            << SP, W("Beta (market sensitivity)"), W(":") >>
              \o (IF risk.beta = None THEN << >> ELSE << N("repr", Get(risk.beta)) >>))
    \o When(risk.avg_recovery_days # None /\ risk.avg_recovery_days # Some(0),
            << SP, W("Average Recovery Time"), W(":") >>
              \o (IF risk.avg_recovery_days = None THEN << >>
                  ELSE << N("repr", Get(risk.avg_recovery_days)) >>)
              \o << W("days") >>)
    \o << << SP, W("Sharp Moves (>5"), W("%"), W(")"), W(":"),
             N("repr", risk.sharp_moves_count), W("days") >>,
          << >> >>

ReturnLine(label, r) ==
    When(r # None,
         << SP, W(label), W("Return"), W(":") >>
           \o (IF r = None THEN << >> ELSE << N("+.2f", Get(r)) >>) \o << W("%") >>)

\* lines 270-284
PerformanceSection(perf) ==
    << Words(<< "HISTORICAL PERFORMANCE:" >>) >>
    \o ReturnLine("1-Month", perf.return_1m)
    \o ReturnLine("3-Month", perf.return_3m)
    \o ReturnLine("1-Year", perf.return_1y)
    \o When(perf.vs_sp500_1y # None,
            IF perf.vs_sp500_1y = None THEN << >>
            ELSE << SP, W("vs. S&P 500"), W(":"),
                    W(IF Get(perf.vs_sp500_1y) > 0 THEN "outperformed" ELSE "underperformed"),
                    W("by"), N(".2f", Abs(Get(perf.vs_sp500_1y))), W("%") >>)
    \o << << >> >>

\* lines 286-291
TrendSection(trends) ==
    << Words(<< "RECENT TRENDS:" >>),
       << SP, W("3-Month Price Trend"), W(":"), W(trends.price_trend_3m) >>,
       << SP, W("Volume Trend"), W(":"), W(trends.volume_trend) >>,
       << SP, W("Position vs 50-Day Average"), W(":"), W(trends.position_vs_50day_avg) >> >>

\* lines 216-293: the narrative, line by line; summary is an Option
format_for_llm(summary, preferences) ==
    IF summary = None THEN Str(<< "Unable to fetch stock data." >>)
    ELSE << Words(<< "=== STOCK PROFILE:", Get(summary).ticker, "===" >>),
            Words(<< "Analysis Period:", "1y", "ending", "(fetch date)" >>),
            << >> >>
         \o BasicSection(Get(summary).basic_info)
         \o RiskSection(Get(summary).risk_metrics, preferences.risk_tolerance)
         \o PerformanceSection(Get(summary).performance)
         \o TrendSection(Get(summary).trends)

-----------------------------------------------------------------------------
(* Rule retriever and prompt assembler: query_data_dss.py *)

TopK == 5

\* a stored passage: [content (a string), source (Option: metadata may lack it)]
Doc(content, source) == [page_content |-> content, source |-> source]

\* line 131: f"[Rule {i}] {content}"
RulePart(i, doc) ==
    Cat(<< << W("[Rule"), N("d", i), W("]") >> >>, StripStr(doc.page_content))

\* line 129: doc.metadata.get("source", "Unknown")
SourceOf(doc) == IF doc.source = None THEN "Unknown" ELSE Get(doc.source)

\* "\n\n".join(parts)
RECURSIVE JoinParagraphs(_)
JoinParagraphs(parts) ==
    IF parts = << >> THEN EmptyStr
    ELSE IF Len(parts) = 1 THEN Head(parts)
    ELSE CatAll(<< Head(parts), Newline, Newline, JoinParagraphs(Tail(parts)) >>)

\* what the index did: kind "raise" (embeddings, Chroma or the search raised) or
\* "ok" with the ranked passages `docs`
\* lines 120-135: the pair built from the passages found
FormatRules(docs) ==
    IF docs = << >>
    THEN [raised |-> FALSE, rules_text |-> EmptyStr, sources |-> << >>]
    ELSE [raised |-> FALSE,
          rules_text |-> JoinParagraphs([i \in 1..Len(docs) |-> RulePart(i, docs[i])]),
          sources |-> [i \in 1..Len(docs) |-> SourceOf(docs[i])]]

\* faulty variant: the handler at line 137 is missing
retrieve_rules_Uncaught(search) ==
    IF search.kind = "raise"
    THEN [raised |-> TRUE, rules_text |-> EmptyStr, sources |-> << >>]
    ELSE FormatRules(search.docs)
\* lines 96-146: [raised, rules_text, sources]; the handler at line 137 turns
\* every exception into the empty pair
retrieve_rules(search) ==
    IF search.kind = "raise"
    THEN [raised |-> FALSE, rules_text |-> EmptyStr, sources |-> << >>]
    ELSE FormatRules(search.docs)

\* faulty variant: the handle is dropped at the end of the try block only
ReleaseHandle_OnSuccess(handle, search) ==
    IF handle # "none" /\ search.kind = "ok" THEN "released" ELSE handle
\* lines 140-146: the finally clause drops the handle whatever the search did
ReleaseHandle(handle, search) == IF handle # "none" THEN "released" ELSE handle

RulesHeader == Words(<< "RELEVANT RULES AND CONSTRAINTS:" >>)

\* line 78: f"\nRELEVANT RULES AND CONSTRAINTS:\n{rules_text}\n"
RulesContext(rules_text) ==
    CatAll(<< << << >>, RulesHeader, << >> >>, rules_text, Newline >>)

Indent == << << SP >> >>

\* lines 159-174
dss_system_prompt ==
    << Words(<< "You are a financial decision support analyst. Your role is to provide structured, objective insights that help users understand investment characteristics and trade-offs - NOT to recommend specific actions." >>),
       << >>,
       << SP, W("CORE PRINCIPLES:") >>,
       << SP, W("1. NEVER recommend \"buy\", \"sell\", or \"hold\"") >>,
       << SP, W("2. EXPLAIN implications and trade-offs, don't make judgments") >>,
       << SP, W("3. HIGHLIGHT alignments and misalignments with user preferences and rules") >>,
       << SP, W("4. FRAME historical data as contextual evidence, not predictions") >>,
       << SP, W("5. MAINTAIN exploratory tone: \"This suggests...\" not \"You should...\"") >>,
       << SP >>,
       << SP, W("ANALYSIS STRUCTURE:") >>,
       << SP, W("- Synthesize financial data with user preferences and constraints") >>,
       << SP, W("- Identify key considerations relevant to the user's question") >>,
       << SP, W("- Explain trade-offs between different characteristics") >>,
       << SP, W("- Flag any conflicts between stock characteristics and stated rules") >>,
       << SP, W("- Present information in a balanced, informative manner") >>,
       << SP >> >>

\* lines 188-199
ClosingInstructions ==
    << << SP, W("INSTRUCTIONS:") >>,
       << SP, W("Provide a comprehensive DSS analysis that:") >>,
       << SP, W("1. Directly addresses the user's question") >>,
       << SP, W("2. Interprets financial data through the lens of their preferences") >>,
       << SP, W("3. Highlights alignment or misalignment with any stated rules") >>,
       << SP, W("4. Explains relevant trade-offs and considerations") >>,
       << SP, W("5. Avoids making recommendations or decisions") >>,
       << SP >>,
       << SP, W("Your response should help the user understand the investment characteristics and how they relate to their stated preferences and constraints, while leaving the ultimate decision to them.") >>,
       << SP >>,
       << SP, W("ANALYSIS:") >>,
       << SP >> >>

\* faulty variant: the rules block is placed after the user question
build_dss_prompt_RulesLast(q, fin_context, rules_ctx, preference_guidance) ==
    CatAll(<< dss_system_prompt, Newline, Newline,
              Indent, preference_guidance, Newline,
              Indent, Newline,
              << << SP, W("FINANCIAL DATA:") >> >>, Newline,
              Indent, fin_context, Newline,
              Indent, Newline,
              << << SP, W("USER QUESTION:") >> >>, Newline,
              Indent, q, Newline,
              Indent, Newline,
              Indent, rules_ctx, Newline,
              Indent, Newline,
              ClosingInstructions >>)

\* lines 176-201: every argument is a string (a line sequence)
build_dss_prompt(q, fin_context, rules_ctx, preference_guidance) ==
    CatAll(<< dss_system_prompt, Newline, Newline,
              Indent, preference_guidance, Newline,
              Indent, Newline,
              << << SP, W("FINANCIAL DATA:") >> >>, Newline,
              Indent, fin_context, Newline,
              Indent, Newline,
              Indent, rules_ctx, Newline,
              Indent, Newline,
              << << SP, W("USER QUESTION:") >> >>, Newline,
              Indent, q, Newline,
              Indent, Newline,
              ClosingInstructions >>)

-----------------------------------------------------------------------------
(* Tiered generator: query_llm_with_dss_prompt and generate_structured_fallback *)

PrimaryMinLen == 100
SecondaryMinLen == 50

LenSlack == 1        \* response lengths are sampled this far around each threshold
MaxPad == 1          \* most leading / trailing whitespace of a response
MaxModels == 1       \* most models the inference service lists
MaxPromptLines == 1  \* longest prompt handed directly to the generator

BodyLens == {0} \cup { PrimaryMinLen + d : d \in (0 - LenSlack)..LenSlack }
                \cup { SecondaryMinLen + d : d \in (0 - LenSlack)..LenSlack }
\* texts a generation backend may return
BackendTexts == { Chars(l, b, t) : l \in 0..MaxPad, b \in BodyLens, t \in 0..MaxPad }

DefaultModel == << W("llama3.2") >>
ModelNames == { << W("llama3.2") >>, << W("llama3.2"), W(":latest") >>, << W("mistral") >> }
\* an entry of the 'models' list: Some(name), or None when it has no 'name' key
ModelEntries == { Some(nm) : nm \in ModelNames } \cup { None }
ModelLists == SeqsUpTo(ModelEntries, MaxModels)

\* what GET /api/tags may do: fail, answer with another status, or list models
TagsOutcomes == { [kind |-> "unreachable", models |-> << >>],
                  [kind |-> "bad_status", models |-> << >>] }
                \cup { [kind |-> "ok", models |-> ms] : ms \in ModelLists }

\* (ollama_running, models) as returned by check_ollama_running
check_ollama_running(outcome) ==
    IF outcome.kind = "ok"
    THEN [running |-> Len(outcome.models) > 0, models |-> outcome.models]
    ELSE [running |-> FALSE, models |-> << >>]

\* index of the first entry any() stops at: the first entry that has no name
\* (KeyError) or whose name contains "llama3.2"; 0 when there is none
FirstStop(models) ==
    LET hits == { i \in 1..Len(models) :
                    IsNone(models[i]) \/ Contains(Get(models[i]), DefaultModel) }
    IN IF hits = {} THEN 0 ELSE CHOOSE i \in hits : \A j \in hits : i <= j

\* model_name of line 215: None when evaluating it raises KeyError
SelectModel(models) ==
    LET k == FirstStop(models)
    IN IF k = 0 THEN Some(Get(models[1]))
       ELSE IF IsNone(models[k]) THEN None
       ELSE Some(DefaultModel)

\* faulty variant: the gate lets a response of exactly the minimum length through
PrimaryAccepts_AtLeast(txt) == CharLen(StripText(txt)) >= PrimaryMinLen
\* line 227: len(response.strip()) > 100
PrimaryAccepts(txt) == CharLen(StripText(txt)) > PrimaryMinLen

\* text produced by a backend: `head` chars of echoed prompt, then the new text
Generated(head, txt) ==
    [head |-> head, lead |-> txt.lead, body |-> txt.body, trail |-> txt.trail]

\* line 256: generated_text[len(prompt):] ; gen = [head, lead, body, trail] is the
\* prompt echo of `head` chars followed by the continuation
SliceFrom(gen, k) ==
    IF k >= gen.head + gen.lead + gen.body + gen.trail THEN Chars(0, 0, 0)
    ELSE IF k >= gen.head + gen.lead + gen.body
         THEN Chars(gen.head + gen.lead + gen.body + gen.trail - k, 0, 0)
    ELSE IF k >= gen.head + gen.lead
         THEN Chars(0, gen.head + gen.lead + gen.body - k, gen.trail)
    ELSE IF k >= gen.head
         THEN Chars(gen.head + gen.lead - k, gen.body, gen.trail)
    ELSE Chars(0, gen.head - k + gen.lead + gen.body, gen.trail)

\* len(prompt): one char per token and one per line break
PromptLen(p) ==
    SumSeq([i \in 1..Len(p) |-> Len(p[i])]) + (IF Len(p) > 0 THEN Len(p) - 1 ELSE 0)

\* line 256: result[0]['generated_text'][len(prompt):].strip()
SecondaryResponse(gen, plen) == StripText(SliceFrom(gen, plen))

\* line 258: len(response) > 50
SecondaryAccepts(txt) == CharLen(txt) > SecondaryMinLen

VolatilityMarker == Words(<< "Annualized", "Volatility", ":" >>)
ReturnMarker == Words(<< "Return" >>)
PercentMarker == Words(<< "%" >>)
SectorMarker == Words(<< "Sector", ":" >>)

IsVolatilityLine(line) == Contains(line, VolatilityMarker)
IsReturnLine(line) == Contains(line, ReturnMarker) /\ Contains(line, PercentMarker)
IsSectorLine(line) == Contains(line, SectorMarker)

\* f"(bullet) {line.strip()}"
BulletMark == W("(bullet)")
Bullet(line) == << BulletMark >> \o StripLine(line)
Bullets(ls) == [i \in 1..Len(ls) |-> Bullet(ls[i])]

FallbackHeader ==
    << Words(<< "DECISION SUPPORT ANALYSIS:" >>),
       << >>,
       Words(<< "Based on the provided financial data and your preferences, here are the key considerations:" >>),
       << >> >>
FallbackFooter ==
    << << >>,
       Words(<< "This analysis is based on historical data and should be considered alongside your personal investment constraints and risk tolerance." >>),
       << >>,
       Words(<< "For more detailed analysis, please ensure Ollama is running with a language model installed." >>) >>

\* faulty variant: the volatility scan is left out
FallbackBullets_NoVolatility(p) ==
    Bullets(SelectSeq(p, IsReturnLine)) \o Bullets(SelectSeq(p, IsSectorLine))
\* the extracted bullets, grouped: volatility, then returns, then sector
FallbackBullets(p) ==
    Bullets(SelectSeq(p, IsVolatilityLine))
      \o Bullets(SelectSeq(p, IsReturnLine))
      \o Bullets(SelectSeq(p, IsSectorLine))

generate_structured_fallback(p) ==
    FallbackHeader \o FallbackBullets(p) \o FallbackFooter

NoPrefs == [risk_tolerance |-> "Medium", time_horizon |-> "Long-term (>1yr)",
            risk_behavior |-> "Risk-averse"]
NoScan == << >>
NoRequests == << >>
NoEngines == << >>
NoQuery == [text |-> EmptyStr, ticker |-> ""]
NoOllama == [running |-> FALSE, models |-> << >>]
NoMetric == [name |-> "", value |-> Num(0), sentence |-> << >>]

Call(op) == [op |-> op, model |-> << >>]
NoTier == [primary |-> "none", secondary |-> "none", fallback |-> "none"]

\* faulty variant: the return after an accepted primary response is lost
AfterPrimary_FallsThrough(accepted) == "llm_secondary"
\* lines 213, 227-233: where control goes after the primary tier
AfterPrimary(accepted) == IF accepted THEN "llm_return" ELSE "llm_secondary"
\* lines 258-268: where control goes after the secondary tier
AfterSecondary(accepted) == IF accepted THEN "llm_return" ELSE "llm_fallback"

\* Locals of query_llm_with_dss_prompt are kept only while they are live:
\* `models` until the model is chosen, `response` until its quality gate.

\* line 211: the liveness probe of the primary backend
CheckOllama ==
    /\ pc = "llm_check"
    /\ \E o \in TagsOutcomes :
         LET r == check_ollama_running(o)
         IN /\ calls' = Append(calls, Call("ollama_tags"))
            /\ IF r.running /\ r.models # << >>
               THEN pc' = "llm_primary" /\ tier' = tier /\ ollama' = r
               ELSE /\ pc' = AfterPrimary(FALSE)
                    /\ tier' = [tier EXCEPT !.primary = "unavailable"]
                    /\ ollama' = NoOllama
    /\ UNCHANGED << llm_response, response >>
    /\ UNCHANGED << query, prefs, use_rules, chroma_exists, index, market, stock_summary,
                    rules_context, sources, found, retrieved, db, prompt, result,
                    escaped, metric, guidance, financial_context, scan, reqs, engines >>
\* lines 214-224: model selection and llm.invoke
InvokeOllama ==
    /\ pc = "llm_primary"
    /\ ollama' = NoOllama
    /\ LET m == SelectModel(ollama.models)
       IN IF IsNone(m)
          THEN \* KeyError while choosing the model: caught at line 232
               /\ tier' = [tier EXCEPT !.primary = "raised"]
               /\ pc' = AfterPrimary(FALSE)
               /\ UNCHANGED << llm_response, calls >>
          ELSE /\ calls' = Append(calls, [op |-> "ollama_invoke", model |-> Get(m)])
               /\ \E out \in { None } \cup { Some(t) : t \in BackendTexts } :
                    IF IsNone(out)
                    THEN \* llm.invoke raised: caught at line 232
                         /\ tier' = [tier EXCEPT !.primary = "raised"]
                         /\ pc' = AfterPrimary(FALSE)
                         /\ UNCHANGED llm_response
                    ELSE /\ llm_response' = Some([from |-> "primary", text |-> Get(out)])
                         /\ pc' = "llm_primary_gate"
                         /\ UNCHANGED tier
    /\ UNCHANGED response
    /\ UNCHANGED << query, prefs, use_rules, chroma_exists, index, market, stock_summary,
                    rules_context, sources, found, retrieved, db, prompt, result,
                    escaped, metric, guidance, financial_context, scan, reqs, engines >>
\* lines 226-233: the quality gate of the primary response
GatePrimary ==
    /\ pc = "llm_primary_gate"
    /\ LET txt == Get(llm_response).text
       IN /\ pc' = AfterPrimary(PrimaryAccepts(txt))
          /\ IF PrimaryAccepts(txt)
             THEN /\ tier' = [tier EXCEPT !.primary = "accepted"]
                  /\ response' = Some([tier |-> "primary", text |-> StripText(txt)])
             ELSE /\ tier' = [tier EXCEPT !.primary = "rejected"]
                  /\ UNCHANGED response
    /\ llm_response' = None
    /\ UNCHANGED << ollama, calls >>
    /\ UNCHANGED << query, prefs, use_rules, chroma_exists, index, market, stock_summary,
                    rules_context, sources, found, retrieved, db, prompt, result,
                    escaped, metric, guidance, financial_context, scan, reqs, engines >>
\* lines 236-256: the local generator; generated_text is the prompt followed by
\* the continuation, and `response` is what follows the prompt, stripped
InvokeHuggingFace ==
    /\ pc = "llm_secondary"
    /\ calls' = Append(calls, Call("hf_generate"))
    /\ LET plen == PromptLen(prompt)
       IN \E out \in { None } \cup { Some(t) : t \in BackendTexts } :
            IF IsNone(out)
            THEN \* import, model load or generation raised: caught at line 263
                 /\ tier' = [tier EXCEPT !.secondary = "raised"]
                 /\ pc' = AfterSecondary(FALSE)
                 /\ UNCHANGED llm_response
            ELSE /\ llm_response' =
                      Some([from |-> "secondary",
                            text |-> SecondaryResponse(Generated(plen, Get(out)), plen)])
                 /\ pc' = "llm_secondary_gate"
                 /\ UNCHANGED tier
    /\ UNCHANGED << ollama, response >>
    /\ UNCHANGED << query, prefs, use_rules, chroma_exists, index, market, stock_summary,
                    rules_context, sources, found, retrieved, db, prompt, result,
                    escaped, metric, guidance, financial_context, scan, reqs, engines >>
\* lines 258-264: the quality gate of the secondary response
GateSecondary ==
    /\ pc = "llm_secondary_gate"
    /\ LET txt == Get(llm_response).text
       IN /\ pc' = AfterSecondary(SecondaryAccepts(txt))
          /\ IF SecondaryAccepts(txt)
             THEN /\ tier' = [tier EXCEPT !.secondary = "accepted"]
                  /\ response' = Some([tier |-> "secondary", text |-> txt])
             ELSE /\ tier' = [tier EXCEPT !.secondary = "rejected"]
                  /\ UNCHANGED response
    /\ llm_response' = None
    /\ UNCHANGED << ollama, calls >>
    /\ UNCHANGED << query, prefs, use_rules, chroma_exists, index, market, stock_summary,
                    rules_context, sources, found, retrieved, db, prompt, result,
                    escaped, metric, guidance, financial_context, scan, reqs, engines >>
\* lines 266-268: the deterministic tier
StructuredFallback ==
    /\ pc = "llm_fallback"
    /\ calls' = Append(calls, Call("fallback"))
    /\ tier' = [tier EXCEPT !.fallback = "returned"]
    /\ response' = Some([tier |-> "fallback",
                         text |-> Lines(generate_structured_fallback(prompt))])
    /\ pc' = "llm_return"
    /\ UNCHANGED << ollama, llm_response >>
    /\ UNCHANGED << query, prefs, use_rules, chroma_exists, index, market, stock_summary,
                    rules_context, sources, found, retrieved, db, prompt, result,
                    escaped, metric, guidance, financial_context, scan, reqs, engines >>
\* lines a caller may hand to query_llm_with_dss_prompt directly
PromptPool ==
    { << SP, W("Annualized"), W("Volatility"), W(":"), N(".1f", 2200), W("%") >>,
      << W("Volatility"), W("is"), W("high") >>,
      << SP, W("1-Month"), W("Return"), W(":"), N("+.2f", 150), W("%") >>,
      << W("Return"), W("policy") >>,
      << SP, W("Sector"), W(":"), W("Technology") >>,
      << W("What"), W("now?") >>,
      << >> }
DirectPrompts == SeqsUpTo(PromptPool, MaxPromptLines) \ { << >> }

\* everything outside the generator at rest
IdleRequest ==
    /\ query = NoQuery /\ prefs = NoPrefs /\ use_rules = FALSE
    /\ chroma_exists = FALSE /\ index = << >>
    /\ market = NoMarket /\ stock_summary = None
    /\ rules_context = EmptyStr /\ sources = << >> /\ found = None /\ retrieved = None /\ db = "none"
    /\ result = None /\ escaped = FALSE /\ metric = NoMetric /\ guidance = None /\ financial_context = EmptyStr /\ scan = NoScan /\ reqs = NoRequests /\ engines = NoEngines

IdleGenerator ==
    /\ ollama = NoOllama /\ llm_response = None /\ tier = NoTier
    /\ response = None /\ calls = << >>

\* query_llm_with_dss_prompt called on its own with any prompt
InitGen ==
    /\ pc = "llm_check"
    /\ prompt \in DirectPrompts
    /\ IdleRequest /\ IdleGenerator

NextGen ==
    \/ CheckOllama \/ InvokeOllama \/ GatePrimary
    \/ InvokeHuggingFace \/ GateSecondary \/ StructuredFallback

SpecGen == InitGen /\ [][NextGen]_vars

-----------------------------------------------------------------------------
(* The analysis pipeline: query_financial_dss *)

MaxIndexDocs == 2    \* most passages held by the index

\* what the market-data service may answer to one request of the pipeline
PipelineMarkets ==
    { MarketRaise,
      MarketOk(MakeHist("flat", 0), InfoUnknown, 0, SpyRaise, SpyRaise),
      MarketOk(MakeHist("rise", 2), InfoUnknown, 0, SpyRaise, SpyRaise),
      MarketOk(MakeHist("dip", 252), InfoKnown, 1496, SpyOk(252, 1200, TRUE, 1234),
               SpyOk(252, 1200, TRUE, 1234)) }

Queries ==
    { [text |-> Str(<< "Is this stock suitable for me?" >>), ticker |-> "AAPL"],
      [text |-> Str(<< "Can the 1-Year", "Return", "exceed 5", "%", "?" >>), ticker |-> "MSFT"] }

DocPool ==
    { Doc(Str(<< "Single positions must stay below 5", "%", "of the portfolio" >>),
          Some("rules.pdf")),
      Doc(<< << SP, W("Target"), W("Return"), W(":"), W("8"), W("%") >>,
             << W("Sector"), W(":"), W("no tobacco"), SP >>, << >> >>,
          Some("rules.pdf")),
      Doc(Str(<< "Rebalance quarterly" >>), None) }
Indexes == SeqsUpTo(DocPool, MaxIndexDocs)

\* one request of the pipeline, and the indexes it may find: none, or one
\* holding two passages of the same document
PipelineQuery == [text |-> Str(<< "Is this stock suitable for me?" >>), ticker |-> "AAPL"]
PipelineIndexes ==
    { << >>,
      << Doc(Str(<< "Single positions must stay below 5", "%", "of the portfolio" >>),
             Some("rules.pdf")),
         Doc(<< << SP, W("Target"), W("Return"), W(":"), W("8"), W("%") >>,
                << W("Sector"), W(":"), W("no tobacco"), SP >>, << >> >>,
             Some("rules.pdf")) >> }

RECURSIVE Pick(_, _, _)
\* the passages of `docs` whose positions are in `hits`, in rank order
Pick(docs, hits, i) ==
    IF i > Len(docs) THEN << >>
    ELSE (IF i \in hits THEN << docs[i] >> ELSE << >>) \o Pick(docs, hits, i + 1)

Take(s, k) == IF Len(s) <= k THEN s ELSE SubSeq(s, 1, k)

\* line 118: what similarity_search(k=5) may do on an index: raise, or return
\* the passages it matched, at most k of them
SearchOutcomes(docs) ==
    { [kind |-> "raise", docs |-> << >>] }
    \cup { [kind |-> "ok", docs |-> Take(Pick(docs, hits, 1), TopK)] :
             hits \in SUBSET (1..Len(docs)) }

\* line 58
UnableMessage(ticker) ==
    Str(<< "Unable to fetch data for ticker", ticker, ". Please verify the ticker symbol." >>)

\* list(set(sources)): every order of the distinct sources
Orderings(S) == { f \in [1..Cardinality(S) -> S] : \A x \in S : \E i \in DOMAIN f : f[i] = x }

\* faulty variant: the list is returned as it was collected
UniqueSources_Keep(srcs) == { srcs }
\* line 93: list(set(sources)), in any order
UniqueSources(srcs) == Orderings(Range(srcs))

\* faulty variant: the early return of line 58 is missing
AfterFetch_Continues(ok) == "rules"
\* lines 57-58: a falsy summary ends the request
AfterFetch(ok) == IF ok THEN "rules" ELSE "done"

\* faulty variant: use_rules is not consulted
RulesEnabled_IgnoresSwitch(use, exists) == exists
\* line 74: use_rules and os.path.exists(CHROMA_PATH)
RulesEnabled(use, exists) == use /\ exists

\* lines 52-58: fetch the summary; without one, answer with the message
FetchSummary ==
    /\ pc = "start"
    /\ calls' = Append(calls, Call("market"))
    /\ \E m \in PipelineMarkets :
         LET r == get_stock_summary(query.ticker, m)
         IN /\ market' = m
            /\ IF r.raised
               THEN /\ escaped' = TRUE /\ pc' = "done"
                    /\ UNCHANGED << stock_summary, result, financial_context, scan, reqs, engines >>
               ELSE IF r.value = None
               THEN /\ result' = Some([response_text |-> Lines(UnableMessage(query.ticker)),
                                       sources |-> << >>, stock_summary |-> None])
                    /\ pc' = AfterFetch(FALSE)
                    /\ UNCHANGED << stock_summary, escaped, financial_context, scan, reqs, engines >>
               ELSE /\ stock_summary' = r.value
                    /\ financial_context' = format_for_llm(r.value, prefs)
                    /\ pc' = AfterFetch(TRUE)
                    /\ UNCHANGED << result, escaped >>
    /\ UNCHANGED << query, prefs, use_rules, chroma_exists, index, rules_context,
                    sources, found, retrieved, db, prompt, ollama, llm_response, tier,
                    response, metric, guidance, scan, reqs, engines >>

\* line 74, condition false: rule retrieval is not attempted
SkipRules ==
    /\ pc = "rules"
    /\ ~RulesEnabled(use_rules, chroma_exists)
    /\ pc' = "assemble"
    /\ UNCHANGED << query, prefs, use_rules, chroma_exists, index, market,
                    stock_summary, rules_context, sources,
                    found, retrieved, db, prompt, ollama, llm_response, tier, response,
                    result, calls, escaped, metric, guidance, financial_context, scan, reqs, engines >>

\* lines 74-76: the call of retrieve_rules
CallRetrieve ==
    /\ pc = "rules"
    /\ RulesEnabled(use_rules, chroma_exists)
    /\ pc' = "retrieve_open"
    /\ UNCHANGED << query, prefs, use_rules, chroma_exists, index, market,
                    stock_summary, rules_context, sources,
                    found, retrieved, db, prompt, ollama, llm_response, tier, response,
                    result, calls, escaped, metric, guidance, financial_context, scan, reqs, engines >>

\* lines 103-112: embeddings and the index handle; either may raise, and then
\* the handler at line 137 answers with db still None
RetrieveOpen ==
    /\ pc = "retrieve_open"
    /\ calls' = Append(calls, Call("retrieve_rules"))
    /\ \/ /\ retrieved' = Some(retrieve_rules([kind |-> "raise", docs |-> << >>]))
          /\ pc' = "rules_done"
          /\ db' = ReleaseHandle(db, [kind |-> "raise", docs |-> << >>])
       \/ /\ db' = "open"
          /\ pc' = "retrieve_search"
          /\ UNCHANGED retrieved
    /\ UNCHANGED found
    /\ UNCHANGED << query, prefs, use_rules, chroma_exists, index, market,
                    stock_summary, rules_context, sources,
                    prompt, ollama, llm_response, tier, response, result,
                    escaped, metric, guidance, financial_context, scan, reqs, engines >>

\* lines 114-146: the search, the formatting of the passages, and the finally
\* clause that drops the handle
RetrieveSearch ==
    /\ pc = "retrieve_search"
    /\ calls' = Append(calls, Call("similarity_search"))
    /\ \E search \in SearchOutcomes(index) :
         /\ found' = (IF search.kind = "raise" THEN None ELSE Some(search.docs))
         /\ retrieved' = Some(retrieve_rules(search))
         /\ db' = ReleaseHandle(db, search)
    /\ pc' = "rules_done"
    /\ UNCHANGED << query, prefs, use_rules, chroma_exists, index, market,
                    stock_summary, rules_context, sources,
                    prompt, ollama, llm_response, tier, response, result,
                    escaped, metric, guidance, financial_context, scan, reqs, engines >>

\* lines 76-79: the caller takes the pair and keeps a non-empty rules text
UseRules ==
    /\ pc = "rules_done"
    /\ IF Get(retrieved).raised
       THEN /\ escaped' = TRUE /\ pc' = "done"
            /\ UNCHANGED << rules_context, sources >>
       ELSE /\ pc' = "assemble"
            /\ escaped' = escaped
            /\ IF Get(retrieved).rules_text # EmptyStr
               THEN /\ rules_context' = RulesContext(Get(retrieved).rules_text)
                    /\ sources' = sources \o Get(retrieved).sources
               ELSE UNCHANGED << rules_context, sources >>
    /\ UNCHANGED << query, prefs, use_rules, chroma_exists, index, market,
                    stock_summary, found, retrieved, db, prompt,
                    ollama, llm_response, tier, response, result, calls, metric, guidance, financial_context, scan, reqs, engines >>

\* lines 68 and 81-87: the narrative (a local, built right after the summary
\* is fetched) and the prompt that embeds it
BuildPrompt ==
    /\ pc = "assemble"
    /\ prompt' = build_dss_prompt(query.text, financial_context, rules_context,
                                  get_prompt_guidance(prefs))
    /\ financial_context' = EmptyStr
    /\ pc' = "llm_check"
    /\ UNCHANGED << query, prefs, use_rules, chroma_exists, index, market,
                    stock_summary, rules_context, sources,
                    found, retrieved, db, ollama, llm_response, tier, response, result,
                    calls, escaped, metric, guidance, scan, reqs, engines >>

\* line 93: return response_text, list(set(sources)), stock_summary
FinishAnalyze ==
    /\ pc = "llm_return"
    /\ \E srcs \in UniqueSources(sources) :
         result' = Some([response_text |-> Get(response).text, sources |-> srcs,
                         stock_summary |-> stock_summary])
    /\ pc' = "done"
    /\ UNCHANGED << query, prefs, use_rules, chroma_exists, index, market,
                    stock_summary, rules_context, sources,
                    found, retrieved, db, prompt, ollama, llm_response, tier, response,
                    calls, escaped, metric, guidance, financial_context, scan, reqs, engines >>

Init ==
    /\ pc = "start"
    /\ query = PipelineQuery
    /\ prefs \in PreferenceVectors
    /\ use_rules \in BOOLEAN
    /\ chroma_exists \in BOOLEAN
    /\ index \in (IF chroma_exists THEN PipelineIndexes ELSE { << >> })
    /\ market = NoMarket /\ stock_summary = None
    /\ rules_context = EmptyStr /\ sources = << >> /\ found = None /\ retrieved = None /\ db = "none"
    /\ prompt = EmptyStr
    /\ result = None /\ escaped = FALSE /\ metric = NoMetric /\ guidance = None /\ financial_context = EmptyStr /\ scan = NoScan /\ reqs = NoRequests /\ engines = NoEngines
    /\ IdleGenerator

Next ==
    \/ FetchSummary \/ SkipRules \/ CallRetrieve \/ RetrieveOpen \/ RetrieveSearch
    \/ UseRules \/ BuildPrompt
    \/ CheckOllama \/ InvokeOllama \/ GatePrimary
    \/ InvokeHuggingFace \/ GateSecondary \/ StructuredFallback
    \/ FinishAnalyze

Spec == Init /\ [][Next]_vars

\* retrieve_rules called on its own, whatever the state of the index
InitRetrieve ==
    /\ pc = "retrieve_open"
    /\ query \in Queries
    /\ chroma_exists \in BOOLEAN
    /\ index \in (IF chroma_exists THEN Indexes ELSE { << >> })
    /\ prefs = NoPrefs /\ use_rules = TRUE
    /\ market = NoMarket /\ stock_summary = None
    /\ rules_context = EmptyStr /\ sources = << >> /\ found = None /\ retrieved = None /\ db = "none"
    /\ prompt = EmptyStr
    /\ result = None /\ escaped = FALSE /\ metric = NoMetric /\ guidance = None /\ financial_context = EmptyStr /\ scan = NoScan /\ reqs = NoRequests /\ engines = NoEngines
    /\ IdleGenerator

NextRetrieve == RetrieveOpen \/ RetrieveSearch

SpecRetrieve == InitRetrieve /\ [][NextRetrieve]_vars

-----------------------------------------------------------------------------
(* The metrics engine and the preference interpreter on their own *)

WindowSlack == 1     \* history lengths are sampled this far around each window
VolSlack == 1        \* volatilities are sampled this far around each boundary

Shapes == { "flat", "rise", "slide", "dip" }
HistLengths ==
    { 0, 1, 2, 3 }
    \cup { n + d : n \in Windows, d \in (0 - WindowSlack)..WindowSlack }
VolSamples ==
    { 0 } \cup { Pct(b) + d : b \in { LowVolatility, HighVolatility },
                              d \in (0 - VolSlack)..VolSlack }
SpySamples ==
    { SpyRaise, SpyOk(252, 1200, TRUE, 1234), SpyOk(252, 1200, FALSE, 0),
      SpyOk(100, 1200, TRUE, 80), SpyOk(252, 1200, TRUE, 4), SpyOk(252, 1200, TRUE, 0) }

\* a series of n values: `base`, and `tail` for the last k of them
StepSeries(n, k, base, tail) == [i \in 1..n |-> IF i > n - k THEN tail ELSE base]

\* histories around each trend's length requirement whose recent value is
\* above, on and inside each boundary of the trend's band
TrendHistories ==
    { [close |-> StepSeries(126 + d, 63, 100, a), volume |-> StepSeries(126 + d, 0, 1000, 0)] :
        d \in (0 - WindowSlack)..WindowSlack, a \in { 94, 95, 100, 105, 106 } }
    \cup { [close |-> StepSeries(63 + d, 0, 100, 0), volume |-> StepSeries(63 + d, 21, 1000, v)] :
        d \in (0 - WindowSlack)..WindowSlack, v \in { 799, 800, 1000, 1200, 1201 } }
    \cup { [close |-> StepSeries(50 + d, 1, bc[1], bc[2]), volume |-> StepSeries(50 + d, 0, 1000, 0)] :
        d \in (0 - WindowSlack)..WindowSlack,
        bc \in { << 2449, 2499 >>, << 2449, 2500 >>, << 2451, 2401 >>, << 2451, 2400 >>,
                 << 100, 100 >> } }

\* answers of the market-data service: every shape at every sampled length,
\* one history under every sampled volatility and benchmark answer, and the
\* trend histories
MetricMarkets ==
    { MarketRaise, MarketInfoRaise(MakeHist("dip", 30)) }
    \cup { MarketOk(h, InfoKnown, 2200, SpyRaise, SpyRaise) : h \in TrendHistories }
    \cup { MarketOk(MakeHist(sh, n), InfoKnown, 2200, SpyRaise, SpyOk(252, 1200, TRUE, 1234)) :
             sh \in Shapes, n \in HistLengths }
    \cup { MarketOk(MakeHist("dip", 30), InfoUnknown, v, spy, spy) :
             v \in VolSamples, spy \in SpySamples }

\* get_stock_summary called on its own
Summarize ==
    /\ pc = "metrics"
    /\ stock_summary' = get_stock_summary(query.ticker, market).value
    /\ calls' = Append(calls, Call("market"))
    /\ pc' = "metrics_done"
    /\ UNCHANGED << query, prefs, use_rules, chroma_exists, index, market,
                    rules_context, sources, found, retrieved, db, prompt, ollama,
                    llm_response, tier, response, result, escaped, metric, guidance, financial_context, scan, reqs, engines >>

\* lines 216-293: format_for_llm called on the summary that was returned
Format ==
    /\ pc = "metrics_done"
    /\ financial_context' = format_for_llm(stock_summary, prefs)
    /\ pc' = "formatted"
    /\ UNCHANGED << query, prefs, use_rules, chroma_exists, index, market,
                    stock_summary, rules_context, sources, found, retrieved, db, prompt,
                    ollama, llm_response, tier, response, result, calls, escaped, metric,
                    guidance, scan, reqs, engines >>

\* preference vectors that differ in risk tolerance only
TolerancePrefs ==
    { [risk_tolerance |-> t, time_horizon |-> "Long-term (>1yr)",
       risk_behavior |-> "Risk-averse"] : t \in RiskTolerances }

InitMetrics ==
    /\ pc = "metrics"
    /\ query = PipelineQuery
    /\ market \in MetricMarkets
    /\ prefs \in TolerancePrefs /\ use_rules = FALSE /\ chroma_exists = FALSE /\ index = << >>
    /\ stock_summary = None
    /\ rules_context = EmptyStr /\ sources = << >> /\ found = None /\ retrieved = None
    /\ db = "none" /\ prompt = EmptyStr
    /\ result = None /\ escaped = FALSE /\ metric = NoMetric /\ guidance = None /\ financial_context = EmptyStr /\ scan = NoScan /\ reqs = NoRequests /\ engines = NoEngines
    /\ IdleGenerator

NextMetrics == Summarize \/ Format

SpecMetrics == InitMetrics /\ [][NextMetrics]_vars

MetricNames == { "volatility", "drawdown", "beta", "sharpe" }
\* metric values in hundredths, on both sides of every band of the explainers
ExplainValues == { 0 - 2500, 0 - 1250, 0 - 950, 50, 100, 150, 1499, 1500, 2200, 2500 }

\* PreferenceEngine(...).interpret_risk_metric(metric_name, value)
Explain ==
    /\ pc = "explain"
    /\ metric' = [metric EXCEPT
                    !.sentence = interpret_risk_metric(prefs, metric.name, metric.value)]
    /\ pc' = "explained"
    /\ UNCHANGED << query, prefs, use_rules, chroma_exists, index, market,
                    stock_summary, rules_context, sources, found, retrieved, db,
                    prompt, ollama, llm_response, tier, response, result, calls,
                    escaped, guidance, financial_context, scan, reqs, engines >>

\* lines 82-136: get_interpretive_context() and get_prompt_guidance() on the
\* engine built from `prefs`; they may be called any number of times
Interpret ==
    /\ pc \in { "explain", "explained" }
    /\ guidance' = Some([context |-> get_interpretive_context(prefs),
                         text |-> get_prompt_guidance(prefs)])
    /\ UNCHANGED << pc, query, prefs, use_rules, chroma_exists, index, market,
                    stock_summary, rules_context, sources, found, retrieved, db,
                    prompt, ollama, llm_response, tier, response, result, calls,
                    escaped, metric, financial_context, scan, reqs, engines >>

InitPref ==
    /\ pc = "explain"
    /\ prefs \in PreferenceVectors
    /\ metric \in { [name |-> nm, value |-> Num(v), sentence |-> << >>] :
                      nm \in MetricNames, v \in ExplainValues }
    /\ query = NoQuery /\ use_rules = FALSE /\ chroma_exists = FALSE /\ index = << >>
    /\ market = NoMarket /\ stock_summary = None
    /\ rules_context = EmptyStr /\ sources = << >> /\ found = None /\ retrieved = None
    /\ db = "none" /\ prompt = EmptyStr
    /\ result = None /\ escaped = FALSE /\ guidance = None /\ financial_context = EmptyStr /\ scan = NoScan /\ reqs = NoRequests /\ engines = NoEngines
    /\ IdleGenerator

NextPref == Explain \/ Interpret

SpecPref == InitPref /\ [][NextPref]_vars

MaxScanLen == 6      \* most samples of a scanned drawdown series
\* closes at the peak, 1% and 5% under it, and deeper
ScanCloses == { 100, 99, 95, 94 }
ScanHistories == { << 100 >> \o s : s \in SeqsUpTo(ScanCloses, MaxScanLen) }

\* lines 95-102: one turn of the recovery loop
ScanSample ==
    /\ pc = "scan"
    /\ scan.t <= Len(market.close)
    /\ scan' = [scan EXCEPT !.t = @ + 1, !.st = ScanStep(market.close, scan.t, scan.st)]
    /\ UNCHANGED << pc, query, prefs, use_rules, chroma_exists, index, market,
                    stock_summary, rules_context, sources, found, retrieved, db, prompt,
                    ollama, llm_response, tier, response, result, calls, escaped, metric,
                    guidance, financial_context, reqs, engines >>

\* line 104: the loop is over and the average is taken
ScanEnd ==
    /\ pc = "scan"
    /\ scan.t > Len(market.close)
    /\ scan' = [scan EXCEPT !.avg = AvgRecoveryDays(market.close)]
    /\ pc' = "scanned"
    /\ UNCHANGED << query, prefs, use_rules, chroma_exists, index, market,
                    stock_summary, rules_context, sources, found, retrieved, db, prompt,
                    ollama, llm_response, tier, response, result, calls, escaped, metric,
                    guidance, financial_context, reqs, engines >>

InitScan ==
    /\ pc = "scan"
    /\ \E h \in ScanHistories :
         market = MarketOk([close |-> h, volume |-> << >>], InfoUnknown, 0,
                           SpyRaise, SpyRaise)
    /\ scan = [t |-> 2, st |-> ScanStart, avg |-> None]
    /\ reqs = NoRequests /\ engines = NoEngines
    /\ query = NoQuery /\ prefs = NoPrefs /\ use_rules = FALSE /\ chroma_exists = FALSE
    /\ index = << >> /\ stock_summary = None
    /\ rules_context = EmptyStr /\ sources = << >> /\ found = None /\ retrieved = None
    /\ db = "none" /\ prompt = EmptyStr
    /\ result = None /\ escaped = FALSE /\ metric = NoMetric /\ guidance = None
    /\ financial_context = EmptyStr
    /\ IdleGenerator

NextScan == ScanSample \/ ScanEnd

SpecScan == InitScan /\ [][NextScan]_vars

-----------------------------------------------------------------------------
(* Legacy entry point: query_rag *)

\* line 321
DatabaseNotFound ==
    Str(<< "Database not found. Please run create_database.py first to create the vector database." >>)
\* line 336
NoDocuments == Str(<< "No relevant documents found for your query." >>)

\* lines 385-386: the text made of the first three passages (the cuts to 300
\* and 500 characters are beyond the passages of the pool) and one source per
\* passage
RagFallback(docs) ==
    [response_text |->
        Lines(CatAll(<< Str(<< "Based on the documents:" >>),
                        JoinParagraphs([i \in 1..Len(Take(docs, 3)) |-> docs[i].page_content]),
                        Str(<< "..." >>) >>)),
     sources |-> [i \in 1..Len(docs) |-> SourceOf(docs[i])]]

\* faulty variant: the index is opened whether the directory is there or not
RagIndexPresent_Ignored(exists) == TRUE
\* line 320: os.path.exists(CHROMA_PATH)
RagIndexPresent(exists) == exists

\* what query_rag never assigns
RagFrame ==
    UNCHANGED << query, prefs, use_rules, chroma_exists, index, market, stock_summary,
                 rules_context, sources, retrieved, prompt, ollama, llm_response, tier,
                 response, metric, guidance, financial_context, scan, reqs, engines >>

\* lines 320-321: without the index directory the message is returned at once
RagCheck ==
    /\ pc = "rag_check"
    /\ IF RagIndexPresent(chroma_exists)
       THEN pc' = "rag_open" /\ UNCHANGED result
       ELSE /\ result' = Some([response_text |-> Lines(DatabaseNotFound), sources |-> << >>])
            /\ pc' = "done"
    /\ UNCHANGED << found, db, calls, escaped >>
    /\ RagFrame

\* lines 323-332: embeddings and the index handle; there is no handler, an
\* exception leaves query_rag through the finally clause
RagOpen ==
    /\ pc = "rag_open"
    /\ calls' = Append(calls, Call("chroma_open"))
    /\ \/ /\ escaped' = TRUE /\ pc' = "done"
          /\ db' = ReleaseHandle(db, [kind |-> "raise", docs |-> << >>])
       \/ /\ db' = "open" /\ pc' = "rag_search"
          /\ UNCHANGED escaped
    /\ UNCHANGED << found, result >>
    /\ RagFrame

\* lines 334-338: the test retrieval
RagSearch ==
    /\ pc = "rag_search"
    /\ calls' = Append(calls, Call("similarity_search"))
    /\ \E search \in SearchOutcomes(index) :
         IF search.kind = "raise"
         THEN /\ escaped' = TRUE /\ pc' = "done"
              /\ db' = ReleaseHandle(db, search)
              /\ UNCHANGED << found, result >>
         ELSE IF search.docs = << >>
         THEN /\ result' = Some([response_text |-> Lines(NoDocuments), sources |-> << >>])
              /\ found' = Some(search.docs)
              /\ db' = ReleaseHandle(db, search)
              /\ pc' = "done"
              /\ UNCHANGED escaped
         ELSE /\ found' = Some(search.docs)
              /\ pc' = "rag_generate"
              /\ UNCHANGED << db, result, escaped >>
    /\ RagFrame

\* lines 340-382: the primary backend answers through the retrieval chain, or
\* is unavailable or raises, which the handler at line 381 catches
RagGenerate ==
    /\ pc = "rag_generate"
    /\ \E o \in TagsOutcomes :
         LET r == check_ollama_running(o)
             m == IF r.models = << >> THEN None ELSE SelectModel(r.models)
         IN IF ~ (r.running /\ r.models # << >>) \/ IsNone(m)
            THEN /\ calls' = Append(calls, Call("ollama_tags"))
                 /\ pc' = "rag_fallback"
                 /\ UNCHANGED << db, result >>
            ELSE \E chain \in SearchOutcomes(index), out \in { None } \cup { Some(t) : t \in BackendTexts } :
                   /\ calls' = calls \o << Call("ollama_tags"),
                                            [op |-> "ollama_invoke", model |-> Get(m)] >>
                   /\ IF chain.kind = "raise" \/ IsNone(out)
                      THEN pc' = "rag_fallback" /\ UNCHANGED << db, result >>
                      ELSE /\ \E srcs \in UniqueSources([i \in 1..Len(chain.docs) |->
                                                           SourceOf(chain.docs[i])]) :
                                result' = Some([response_text |-> Get(out), sources |-> srcs])
                           /\ db' = ReleaseHandle(db, chain)
                           /\ pc' = "done"
    /\ UNCHANGED << found, escaped >>
    /\ RagFrame

\* lines 384-386 and the finally clause
RagAnswerFromDocs ==
    /\ pc = "rag_fallback"
    /\ result' = Some(RagFallback(Get(found)))
    /\ db' = ReleaseHandle(db, [kind |-> "ok", docs |-> Get(found)])
    /\ pc' = "done"
    /\ UNCHANGED << found, calls, escaped >>
    /\ RagFrame

InitRag ==
    /\ pc = "rag_check"
    /\ query \in Queries
    /\ chroma_exists \in BOOLEAN
    /\ index \in (IF chroma_exists THEN Indexes ELSE { << >> })
    /\ prefs = NoPrefs /\ use_rules = FALSE
    /\ market = NoMarket /\ stock_summary = None
    /\ rules_context = EmptyStr /\ sources = << >> /\ found = None /\ retrieved = None
    /\ db = "none" /\ prompt = EmptyStr
    /\ result = None /\ escaped = FALSE /\ metric = NoMetric /\ guidance = None
    /\ financial_context = EmptyStr /\ scan = NoScan /\ reqs = NoRequests /\ engines = NoEngines
    /\ IdleGenerator

NextRag == RagCheck \/ RagOpen \/ RagSearch \/ RagGenerate \/ RagAnswerFromDocs

SpecRag == InitRag /\ [][NextRag]_vars

-----------------------------------------------------------------------------
(* Two requests of query_financial_dss whose steps interleave *)

Requests == { 1, 2 }

\* faulty variant: one engine instance serves every request
EngineOf_Shared(r) == 1
\* lines 61-65: each call builds its own PreferenceEngine
EngineOf(r) == r

\* what the services answer to one request: the market data of its ticker,
\* the search on the index (None: rules are off), and the text of the primary
\* backend (None: no backend answers and the deterministic tier is used)
ConcInputs(ticker, tolerances) ==
    { [query |-> [text |-> Str(<< "Is this stock suitable for me?" >>), ticker |-> ticker],
       prefs |-> [risk_tolerance |-> t, time_horizon |-> "Short-term (<1yr)",
                  risk_behavior |-> "Risk-seeking"],
       market |-> m, search |-> sr, backend |-> b] :
        t \in tolerances,
        m \in { MarketRaise,
                MarketOk(MakeHist("dip", 30), InfoKnown, 2200, SpyRaise, SpyRaise) },
        sr \in { None,
                 Some([kind |-> "ok",
                       docs |-> << Doc(Str(<< "Rebalance quarterly" >>), Some("rules.pdf")) >>]) },
        b \in { None, Some(Chars(1, PrimaryMinLen + 1, 0)) } }

NewRequest(in) ==
    [pc |-> "start", query |-> in.query, prefs |-> in.prefs, market |-> in.market,
     search |-> in.search, backend |-> in.backend,
     stock_summary |-> None, financial_context |-> EmptyStr, rules_context |-> EmptyStr,
     sources |-> << >>, prompt |-> EmptyStr, response |-> None, result |-> None]

\* lines 204-268 for a backend that answers with `backend`, or with nothing
QueryLlm(p, backend) ==
    IF backend # None /\ PrimaryAccepts(Get(backend)) THEN StripText(Get(backend))
    ELSE Lines(generate_structured_fallback(p))

\* what the interleaved requests never assign
ConcFrame ==
    UNCHANGED << pc, query, prefs, use_rules, chroma_exists, index, market, stock_summary,
                 rules_context, sources, found, retrieved, db, prompt, ollama,
                 llm_response, tier, response, result, calls, escaped, metric, guidance,
                 financial_context, scan >>

\* lines 52-58
ConcFetch(r) ==
    /\ reqs[r].pc = "start"
    /\ LET s == get_stock_summary(reqs[r].query.ticker, reqs[r].market).value
       IN reqs' = [reqs EXCEPT ![r] =
                     IF s = None
                     THEN [@ EXCEPT !.pc = "done",
                                    !.result = Some([response_text |->
                                                       Lines(UnableMessage(reqs[r].query.ticker)),
                                                     sources |-> << >>,
                                                     stock_summary |-> None])]
                     ELSE [@ EXCEPT !.pc = "engine", !.stock_summary = s]]
    /\ UNCHANGED engines
    /\ ConcFrame

\* lines 61-65: PreferenceEngine.__init__ stores the three preferences
ConcEngine(r) ==
    /\ reqs[r].pc = "engine"
    /\ engines' = [engines EXCEPT ![EngineOf(r)] = Some(reqs[r].prefs)]
    /\ reqs' = [reqs EXCEPT ![r].pc = "format"]
    /\ ConcFrame

\* line 68
ConcFormat(r) ==
    /\ reqs[r].pc = "format"
    /\ reqs' = [reqs EXCEPT ![r] =
                  [@ EXCEPT !.pc = "rules",
                            !.financial_context = format_for_llm(reqs[r].stock_summary, reqs[r].prefs)]]
    /\ UNCHANGED engines
    /\ ConcFrame

\* lines 71-79
ConcRules(r) ==
    /\ reqs[r].pc = "rules"
    /\ LET pair == IF reqs[r].search = None
                   THEN [raised |-> FALSE, rules_text |-> EmptyStr, sources |-> << >>]
                   ELSE retrieve_rules(Get(reqs[r].search))
       IN reqs' = [reqs EXCEPT ![r] =
                     IF pair.rules_text # EmptyStr
                     THEN [@ EXCEPT !.pc = "assemble",
                                    !.rules_context = RulesContext(pair.rules_text),
                                    !.sources = pair.sources]
                     ELSE [@ EXCEPT !.pc = "assemble"]]
    /\ UNCHANGED engines
    /\ ConcFrame

\* lines 81-87: the guidance is read from the fields of the request's engine
ConcPrompt(r) ==
    /\ reqs[r].pc = "assemble"
    /\ reqs' = [reqs EXCEPT ![r] =
                  [@ EXCEPT !.pc = "generate",
                            !.prompt = build_dss_prompt(reqs[r].query.text, reqs[r].financial_context,
                                           reqs[r].rules_context,
                                           get_prompt_guidance(Get(engines[EngineOf(r)])))]]
    /\ UNCHANGED engines
    /\ ConcFrame

\* line 90
ConcGenerate(r) ==
    /\ reqs[r].pc = "generate"
    /\ reqs' = [reqs EXCEPT ![r] =
                  [@ EXCEPT !.pc = "return",
                            !.response = Some(QueryLlm(reqs[r].prompt, reqs[r].backend))]]
    /\ UNCHANGED engines
    /\ ConcFrame

\* line 93
ConcReturn(r) ==
    /\ reqs[r].pc = "return"
    /\ \E srcs \in UniqueSources(reqs[r].sources) :
         reqs' = [reqs EXCEPT ![r] =
                    [@ EXCEPT !.pc = "done",
                              !.result = Some([response_text |-> Get(reqs[r].response),
                                               sources |-> srcs,
                                               stock_summary |-> reqs[r].stock_summary])]]
    /\ UNCHANGED engines
    /\ ConcFrame

InitConc ==
    /\ \E a \in ConcInputs("AAPL", { "Low" }), b \in ConcInputs("MSFT", { "Medium", "High" }) :
         reqs = [r \in Requests |-> NewRequest(IF r = 1 THEN a ELSE b)]
    /\ engines = [e \in Requests |-> None]
    /\ pc = "concurrent" /\ query = NoQuery /\ prefs = NoPrefs /\ use_rules = FALSE
    /\ chroma_exists = FALSE /\ index = << >> /\ market = NoMarket /\ stock_summary = None
    /\ rules_context = EmptyStr /\ sources = << >> /\ found = None /\ retrieved = None
    /\ db = "none" /\ prompt = EmptyStr
    /\ result = None /\ escaped = FALSE /\ metric = NoMetric /\ guidance = None
    /\ financial_context = EmptyStr /\ scan = NoScan
    /\ IdleGenerator

NextConc ==
    \E r \in Requests :
        \/ ConcFetch(r) \/ ConcEngine(r) \/ ConcFormat(r) \/ ConcRules(r)
        \/ ConcPrompt(r) \/ ConcGenerate(r) \/ ConcReturn(r)

SpecConc == InitConc /\ [][NextConc]_vars

-----------------------------------------------------------------------------
(* Properties of the tiered generator *)

Ops == [i \in 1..Len(calls) |-> calls[i].op]
Invoked(op) == \E i \in 1..Len(calls) : calls[i].op = op

TierRank(op) ==
    CASE op = "ollama_tags" -> 1
      [] op = "ollama_invoke" -> 2
      [] op = "hf_generate" -> 3
      [] op = "fallback" -> 4
      [] OTHER -> 0

C1_Order ==
    /\ \A i, j \in 1..Len(calls) :
         (i < j /\ TierRank(Ops[j]) > 0) => TierRank(Ops[i]) < TierRank(Ops[j])
    /\ Invoked("ollama_invoke") => Invoked("ollama_tags")
    /\ Invoked("hf_generate") =>
         /\ Invoked("ollama_tags")
         /\ tier.primary \in { "unavailable", "raised", "rejected" }
    /\ Invoked("fallback") =>
         /\ Invoked("hf_generate")
         /\ tier.secondary \in { "raised", "rejected" }
    /\ tier.primary = "accepted" => ~Invoked("hf_generate") /\ ~Invoked("fallback")
    /\ tier.secondary = "accepted" => ~Invoked("fallback")
    /\ (pc = "llm_return") <=> (response # None /\ result = None)
    /\ response # None =>
         /\ Get(response).tier = "primary" <=> tier.primary = "accepted"
         /\ Get(response).tier = "secondary" <=> tier.secondary = "accepted"
         /\ Get(response).tier = "fallback" <=> tier.fallback = "returned"
         /\ tier.fallback = "returned" =>
              tier.primary # "accepted" /\ tier.secondary # "accepted"

C1_Returned ==
    /\ (pc = "llm_primary_gate" /\ tier'.primary = "accepted") =>
         /\ pc' = "llm_return"
         /\ response' = Some([tier |-> "primary",
                              text |-> Chars(0, Get(llm_response).text.body, 0)])
    /\ (pc = "llm_secondary_gate" /\ tier'.secondary = "accepted") =>
         /\ pc' = "llm_return"
         /\ response' = Some([tier |-> "secondary", text |-> Get(llm_response).text])
    /\ response # None => (response' = response /\ calls' = calls /\ tier' = tier)

\* C1: the backends are tried strictly in the order primary, secondary,
\* deterministic fallback, each at most once; the secondary is invoked only after
\* the primary was unavailable, raised or was rejected; the fallback only after
\* the secondary raised or was rejected; the text returned is the output of the
\* first tier that accepted, and no tier is invoked after an acceptance.
C1_TierOrder == [] C1_Order /\ [][C1_Returned]_vars

\* C1 witness: the primary was rejected and the secondary's text was returned
C1_Witness ==
    /\ pc = "llm_return"
    /\ tier.primary = "rejected" /\ tier.secondary = "accepted"
    /\ Get(response).tier = "secondary"
    /\ Ops = << "ollama_tags", "ollama_invoke", "hf_generate" >>

C2_Rejected ==
    /\ tier.primary = "rejected" =>
         /\ pc = "llm_secondary" \/ Invoked("hf_generate")
         /\ response # None => Get(response).tier # "primary"
    /\ tier.secondary = "rejected" =>
         /\ pc = "llm_fallback" \/ Invoked("fallback")
         /\ response # None => Get(response).tier = "fallback"

C2_Gate ==
    /\ pc = "llm_primary_gate" =>
         /\ tier'.primary \in { "accepted", "rejected" }
         /\ tier'.primary = "accepted" <=> Get(llm_response).text.body > 100
    /\ (pc = "llm_secondary" /\ llm_response' # None) =>
         \* what is measured is the continuation alone, without its margins
         /\ Get(llm_response').text.lead = 0
         /\ Get(llm_response').text.trail = 0
         /\ Get(llm_response').text.body \in BodyLens
    /\ pc = "llm_secondary_gate" =>
         /\ tier'.secondary \in { "accepted", "rejected" }
         /\ tier'.secondary = "accepted" <=> Get(llm_response).text.body > 50

\* C2: the primary response is accepted iff its whitespace-stripped length is
\* > 100, the secondary response (the generated text after the prompt prefix,
\* stripped) iff its length is > 50; a rejected output makes the next tier run
\* and is never the text returned.
C2_AcceptIffLongEnough == [] C2_Rejected /\ [][C2_Gate]_vars

\* C2 witness: a primary response was rejected, and a secondary response one
\* character above its threshold was accepted and returned
C2_Witness ==
    /\ tier.primary = "rejected" /\ tier.secondary = "accepted"
    /\ response # None
    /\ Get(response).text.body = SecondaryMinLen + 1

BothRejected == tier.primary = "rejected" /\ tier.secondary = "rejected"
HasBullet(txt) ==
    \E i \in 1..Len(txt.lines) :
        /\ txt.lines[i] # << >>
        /\ Head(txt.lines[i]) = BulletMark
        /\ \E k \in 1..Len(prompt) : txt.lines[i] = Bullet(prompt[k])
PromptHas(pat) == \E k \in 1..Len(prompt) : Contains(prompt[k], pat)

\* C3 as stated: when both backends return text below their thresholds the
\* fallback text is returned, is non-empty, and has a bullet for every prompt
\* that contains the word "Volatility".
C3_AsStated ==
    (pc = "llm_return" /\ BothRejected) =>
        /\ Get(response).tier = "fallback"
        /\ ~IsEmptyText(Get(response).text)
        /\ PromptHas(Words(<< "Volatility" >>)) => HasBullet(Get(response).text)

\* C3 amended: when both backends return text below their thresholds the
\* fallback text is returned, is non-empty, and has at least one extracted bullet
\* for every prompt with a line that contains "Annualized Volatility:".
C3_FallbackNonEmpty ==
    (response # None /\ BothRejected) =>
        /\ Get(response).tier = "fallback"
        /\ Get(response).text = Lines(generate_structured_fallback(prompt))
        /\ ~IsEmptyText(Get(response).text)
        /\ PromptHas(VolatilityMarker) => HasBullet(Get(response).text)

\* C3 witness: both backends answered too briefly and the fallback extracted the
\* volatility line of the prompt
C3_Witness ==
    /\ pc = "llm_return" /\ BothRejected
    /\ PromptHas(VolatilityMarker)
    /\ HasBullet(Get(response).text)

-----------------------------------------------------------------------------
(* Properties of the analysis pipeline *)

PcRank ==
    CASE pc = "start" -> 0
      [] pc = "rules" -> 1
      [] pc = "retrieve_open" -> 2
      [] pc = "retrieve_search" -> 3
      [] pc = "rules_done" -> 4
      [] pc = "assemble" -> 5
      [] pc = "llm_check" -> 6
      [] pc = "llm_primary" -> 7
      [] pc = "llm_primary_gate" -> 8
      [] pc = "llm_secondary" -> 9
      [] pc = "llm_secondary_gate" -> 10
      [] pc = "llm_fallback" -> 11
      [] pc = "llm_return" -> 12
      [] pc = "done" -> 13

\* positions whose step depends on a condition or on an outcome; the steps at
\* "start", "assemble" and "llm_fallback" are unconditional
Branching ==
    { "rules", "retrieve_open", "retrieve_search", "rules_done", "llm_check",
      "llm_primary", "llm_primary_gate", "llm_secondary", "llm_secondary_gate",
      "llm_return" }

C4_Answered ==
    /\ pc \in Branching => ENABLED Next
    /\ ~escaped
    /\ pc = "done" =>
         /\ result # None
         /\ ~IsEmptyText(Get(result).response_text)
         /\ (tier.primary # "accepted" /\ tier.secondary # "accepted"
             /\ Get(result).stock_summary # None) =>
              Get(result).response_text = Lines(generate_structured_fallback(prompt))

\* C4: for each of the 12 preference vectors and every combination of outcomes
\* of the external calls, analyze terminates (every step moves the request
\* forward through a finite sequence of positions, and no position where the
\* request branches is stuck) and returns a non-empty response text; no
\* exception escapes, and when no backend accepts the text is the deterministic
\* fallback.
C4_AlwaysAnswers == [] C4_Answered /\ [][PcRank' > PcRank]_vars

\* C4 witness: the index search raised, the primary backend was reachable but
\* raised, the secondary raised too, and the request was answered
C4_Witness ==
    /\ pc = "done" /\ ~escaped
    /\ Invoked("similarity_search") /\ found = None
    /\ tier.primary = "raised" /\ tier.secondary = "raised"
    /\ Get(result).response_text = Get(response).text
    /\ Get(response).tier = "fallback"

NoMarketData == pc # "start" /\ (market.kind = "raise" \/ market.close = << >>)

\* C5: when the market-data service raises or hands back an empty history,
\* analyze returns the explanatory message, an empty source list and a null
\* summary without raising; neither rule retrieval nor a generation backend
\* is invoked.
C5_DataUnavailable ==
    NoMarketData =>
        /\ pc = "done" /\ ~escaped
        /\ result = Some([response_text |-> Lines(UnableMessage(query.ticker)),
                          sources |-> << >>, stock_summary |-> None])
        /\ Ops = << "market" >>
        /\ db = "none" /\ retrieved = None /\ tier = NoTier /\ response = None

\* C5 witness: a request with rules enabled and an index present ended on the
\* message after the one call to the market-data service
C5_Witness ==
    /\ NoMarketData /\ pc = "done"
    /\ use_rules /\ chroma_exists /\ index # << >>
    /\ Get(result).stock_summary = None
    /\ Len(calls) = 1

RulesOff == (~use_rules \/ ~chroma_exists) /\ stock_summary # None
RuleMark == << W("[Rule") >>

\* C6: when no rules index is present or use_rules is false, and the ticker's
\* data is available, rule retrieval is never invoked, sources == [], the
\* summary returned is non-null, the response is the text of the tier that
\* accepted (or the fallback), and the prompt has no rules block.
C6_NoRules ==
    RulesOff =>
        /\ ~Invoked("retrieve_rules") /\ ~Invoked("similarity_search")
        /\ db = "none" /\ retrieved = None
        /\ sources = << >> /\ rules_context = EmptyStr
        /\ ~PromptHas(RulesHeader) /\ ~PromptHas(RuleMark)
        /\ pc = "done" =>
             /\ Get(result).sources = << >>
             /\ Get(result).stock_summary = stock_summary
             /\ Get(result).response_text = Get(response).text
             /\ \/ Get(response).tier = "primary" /\ tier.primary = "accepted"
                \/ Get(response).tier = "secondary" /\ tier.secondary = "accepted"
                \/ Get(response).tier = "fallback" /\ tier.fallback = "returned"

\* C6 witness: rules were asked for, no index was present, and the secondary
\* backend's text was returned with the summary
C6_Witness ==
    /\ pc = "done" /\ use_rules /\ ~chroma_exists
    /\ Get(result).stock_summary # None /\ Get(result).sources = << >>
    /\ Get(response).tier = "secondary"

EmptyPair == [raised |-> FALSE, rules_text |-> EmptyStr, sources |-> << >>]

\* C7: retrieve_rules returns the empty pair and never raises whenever the
\* index is empty or absent, the search matches nothing, or the embedding,
\* index or search call raises.
C7_EmptyNeverRaises ==
    retrieved # None =>
        /\ ~Get(retrieved).raised
        /\ (index = << >> \/ found = None \/ found = Some(<< >>)) =>
             Get(retrieved) = EmptyPair

\* C7 witness: the search raised on an index that holds passages; the empty
\* pair came back and the handle was released
C7_Witness ==
    /\ pc = "rules_done" /\ index # << >>
    /\ Invoked("similarity_search") /\ found = None
    /\ retrieved = Some(EmptyPair) /\ db = "released"

-----------------------------------------------------------------------------
(* Properties of the metrics engine and of the preference interpreter *)

ReturnField(perf, n) ==
    CASE n = Window1m -> perf.return_1m
      [] n = Window3m -> perf.return_3m
      [] n = Window6m -> perf.return_6m
      [] n = Window1y -> perf.return_1y

\* r hundredths of a percent is (now / then - 1) x 100 rounded to two decimals
IsReturnOf(r, now, then) ==
    LET exact == (now - then) * 10000    \* r * then, were nothing rounded
    IN 2 * (r * then - exact) <= then /\ 2 * (exact - r * then) <= then

\* C8: for every window N in {21, 63, 126, 252} the trailing-return field is
\* null exactly when the history holds fewer than N daily prices; otherwise it is
\* (priceNow / priceNDaysAgo - 1) x 100 (to two decimals), where priceNow is the
\* last price of the history and priceNDaysAgo the first price of its last N:
\* both lie inside the history and no shorter window is ever used.
C8_TrailingReturns ==
    (pc = "metrics_done" /\ stock_summary # None) =>
        \A n \in Windows :
            LET r == ReturnField(Get(stock_summary).performance, n)
                c == market.close
            IN /\ r = None <=> Len(c) < n
               /\ r # None =>
                    /\ Len(c) - n + 1 \in 1..Len(c)
                    /\ IsReturnOf(Get(r), c[Len(c)], c[Len(c) - n + 1])

\* C8 witness: a rising history of exactly 63 prices has the 1-month and
\* 3-month returns and neither the 6-month nor the 1-year return
C8_Witness ==
    /\ pc = "metrics_done" /\ stock_summary # None
    /\ Len(market.close) = Window3m
    /\ market.close[1] < market.close[Window3m]
    /\ Get(stock_summary).performance.return_1m # None
    /\ Get(stock_summary).performance.return_3m # None
    /\ Get(stock_summary).performance.return_3m # Some(0)
    /\ Get(stock_summary).performance.return_6m = None
    /\ Get(stock_summary).performance.return_1y = None

\* the annualized volatility is a number (the history has two returns or more)
HasVolatility == stock_summary # None /\ Len(market.close) >= 3

\* C9: the risk classification is decided by the annualized volatility alone,
\* with boundaries exactly at 15 and 25: below 15 is Low, from 15 up to but
\* excluding 25 is Moderate, 25 and above is High (14.99 -> Low, 15.0 ->
\* Moderate, 24.99 -> Moderate, 25.0 -> High).
C9_RiskBands ==
    (pc = "metrics_done" /\ HasVolatility) =>
        LET v == market.std_pct
            class == Get(stock_summary).risk_metrics.risk_classification
        IN /\ class \in { "Low", "Moderate", "High" }
           /\ v < 1500 <=> class = "Low"
           /\ (1500 <= v /\ v < 2500) <=> class = "Moderate"
           /\ v >= 2500 <=> class = "High"
           /\ v = 1499 => class = "Low"
           /\ v = 1500 => class = "Moderate"
           /\ v = 2499 => class = "Moderate"
           /\ v = 2500 => class = "High"

\* C9 witness: a volatility of exactly 15.00 was classified Moderate
C9_Witness ==
    /\ pc = "metrics_done" /\ HasVolatility
    /\ market.std_pct = 1500
    /\ Get(stock_summary).risk_metrics.risk_classification = "Moderate"

OnlyToleranceDiffers(pv1, pv2) ==
    /\ pv1.risk_tolerance # pv2.risk_tolerance
    /\ pv1.time_horizon = pv2.time_horizon
    /\ pv1.risk_behavior = pv2.risk_behavior

\* C10: for the metrics volatility, drawdown and beta, every value and every two
\* preference vectors that differ only in risk tolerance, explain gives two
\* textually distinct sentences for the same (metric name, value).
C10_DistinctByTolerance ==
    (pc = "explained" /\ metric.name \in { "volatility", "drawdown", "beta" }) =>
        \A other \in PreferenceVectors :
            OnlyToleranceDiffers(prefs, other) =>
                interpret_risk_metric(other, metric.name, metric.value) # metric.sentence

ToleranceFragments(c) == << c.volatility_emphasis, c.concern_language, c.positive_language >>
HorizonFragments(c) == << c.data_focus, c.volatility_interpretation, c.recovery_perspective >>
BehaviorFragments(c) == << c.analysis_perspective, c.decision_framing, c.trade_off_priority >>

C11_Compositional ==
    guidance # None =>
        \A other \in PreferenceVectors :
            LET mine == Get(guidance).context
                theirs == get_interpretive_context(other)
            IN /\ ToleranceFragments(mine) = ToleranceFragments(theirs)
                    <=> prefs.risk_tolerance = other.risk_tolerance
               /\ HorizonFragments(mine) = HorizonFragments(theirs)
                    <=> prefs.time_horizon = other.time_horizon
               /\ BehaviorFragments(mine) = BehaviorFragments(theirs)
                    <=> prefs.risk_behavior = other.risk_behavior
               /\ mine = theirs <=> other = prefs
               /\ Get(guidance).text = get_prompt_guidance(other) <=> other = prefs

C11_Pure ==
    /\ prefs' = prefs
    /\ guidance # None => guidance' = guidance
    /\ guidance' # guidance => (metric' = metric /\ pc' = pc)

\* C11: interpret is a pure, compositional function of the preference vector:
\* a repeated call hands back the identical context and changes no other state;
\* the emphasis, concern and positive language follow the risk tolerance alone,
\* the data focus, volatility interpretation and recovery perspective the time
\* horizon alone, the perspective, decision framing and trade-off priority the
\* risk behavior alone; the 12 vectors give 12 pairwise distinct contexts and 12
\* pairwise distinct guidance texts.
C11_InterpretPure == [] C11_Compositional /\ [][C11_Pure]_vars

\* C11 witness: a risk-seeking vector with a low risk tolerance was interpreted
\* after its metric was explained
C11_Witness ==
    /\ pc = "explained" /\ guidance # None
    /\ prefs.risk_tolerance = "Low" /\ prefs.risk_behavior = "Risk-seeking"
    /\ Get(guidance).context.trade_off_priority = "growth over safety"

\* the narrative has a line that carries the label and, after it, the value
Reports(text, label, value) ==
    \E i \in 1..Len(text) :
        \E j, k \in 1..Len(text[i]) : j < k /\ text[i][j] = W(label) /\ text[i][k] = value

ReportsReturn(text, label, r) == r # None => Reports(text, label, N("+.2f", Get(r)))

\* C12 (as stated): the narrative of a summary reports every metric of the
\* summary that is not null: volatility, maximum drawdown, beta, average
\* recovery time, sharp-move count, the 1-month, 3-month, 6-month and 1-year
\* returns, the return versus the benchmark and the three trend fields.
C12_NarrativeComplete ==
    (pc = "formatted" /\ stock_summary # None) =>
        LET risk == Get(stock_summary).risk_metrics
            perf == Get(stock_summary).performance
            trends == Get(stock_summary).trends
            text == financial_context
        IN /\ Reports(text, "Volatility", Shown("repr", risk.volatility_annual))
           /\ Reports(text, "Maximum Drawdown (period)", Shown("repr", risk.max_drawdown))
           /\ risk.beta # None =>
                Reports(text, "Beta (market sensitivity)", N("repr", Get(risk.beta)))
           /\ risk.avg_recovery_days # None =>
                Reports(text, "Average Recovery Time", N("repr", Get(risk.avg_recovery_days)))
           /\ Reports(text, "Sharp Moves (>5", N("repr", risk.sharp_moves_count))
           /\ ReportsReturn(text, "1-Month", perf.return_1m)
           /\ ReportsReturn(text, "3-Month", perf.return_3m)
           /\ ReportsReturn(text, "6-Month", perf.return_6m)
           /\ ReportsReturn(text, "1-Year", perf.return_1y)
           /\ perf.vs_sp500_1y # None =>
                Reports(text, "vs. S&P 500", N(".2f", Abs(Get(perf.vs_sp500_1y))))
           /\ Reports(text, "3-Month Price Trend", W(trends.price_trend_3m))
           /\ Reports(text, "Volume Trend", W(trends.volume_trend))
           /\ Reports(text, "Position vs 50-Day Average", W(trends.position_vs_50day_avg))

\* the contextual sentence of a narrative: the text of its "Context" line
IsContextLine(line) == Len(line) = 4 /\ line[2] = W("Context")
ContextSentences(text) == { text[i][4].t : i \in { k \in 1..Len(text) : IsContextLine(text[k]) } }

\* the narrative of the same summary under another risk tolerance
NarrativeUnder(t) == format_for_llm(stock_summary, [prefs EXCEPT !.risk_tolerance = t])

ModerateBand(volatility) ==
    /\ ~ volatility.nan
    /\ 10 * LowVolatility <= volatility.v /\ volatility.v < 10 * HighVolatility

\* C13: the narrative of a summary has one contextual sentence; under any other
\* risk tolerance the narrative of the same summary differs in that sentence, and
\* in that line only; a volatility in the moderate band is framed as exceeding
\* conservative thresholds under Low and as balanced opportunity under High.
C13_ContextByTolerance ==
    (pc = "formatted" /\ stock_summary # None) =>
        LET mine == financial_context
            volatility == Get(stock_summary).risk_metrics.volatility_annual
        IN /\ Cardinality(ContextSentences(mine)) = 1
           /\ \A t \in RiskTolerances \ { prefs.risk_tolerance } :
                LET theirs == NarrativeUnder(t)
                IN /\ Len(theirs) = Len(mine)
                   /\ \A i \in 1..Len(mine) :
                        (theirs[i] # mine[i]) <=> IsContextLine(mine[i])
                   /\ ContextSentences(theirs) \cap ContextSentences(mine) = { }
           /\ (ModerateBand(volatility) /\ prefs.risk_tolerance = "Low") =>
                ContextSentences(mine) = { "This moderate volatility indicates notable price fluctuations that may exceed conservative risk thresholds" }
           /\ (ModerateBand(volatility) /\ prefs.risk_tolerance = "High") =>
                ContextSentences(mine) = { "This moderate volatility offers balanced opportunity for returns with manageable swings" }

\* C13 witness: a summary with a volatility of 22% was narrated for a low risk
\* tolerance
C13_Witness ==
    /\ pc = "formatted" /\ stock_summary # None
    /\ prefs.risk_tolerance = "Low"
    /\ Get(stock_summary).risk_metrics.volatility_annual = Num(220)
    /\ \E i \in 1..Len(financial_context) : IsContextLine(financial_context[i])

\* the fields of a summary that need more history than there is, or the
\* benchmark, are null or insufficient_data one by one
DegradesByField(s, m) ==
    /\ s.risk_metrics.beta # None => m.spy_risk.kind = "ok"
    /\ s.performance.vs_sp500_1y # None => m.spy_perf.kind = "ok"
    /\ s.performance.return_1m # None <=> Len(m.close) >= Window1m
    /\ s.performance.return_3m # None <=> Len(m.close) >= Window3m
    /\ s.performance.return_6m # None <=> Len(m.close) >= Window6m
    /\ s.performance.return_1y # None <=> Len(m.close) >= Window1y
    /\ s.trends.price_trend_3m = "insufficient_data" <=> Len(m.close) < 126
    /\ s.trends.volume_trend = "insufficient_data" <=> Len(m.volume) < 63
    /\ s.trends.position_vs_50day_avg = "insufficient_data" <=> Len(m.close) < 50
    /\ s.basic_info.current_price = m.close[Len(m.close)]

\* C14 (as stated): get_stock_summary returns a summary whenever the price
\* history is non-empty: a failing benchmark fetch, a history shorter than a
\* window or a failing company-info lookup degrades that field alone; only an
\* absent or empty price history gives no summary.
C14_SummaryWheneverHistory ==
    pc \in { "metrics_done", "formatted" } =>
        /\ stock_summary = None <=> market.close = << >>
        /\ stock_summary # None => DegradesByField(Get(stock_summary), market)

\* the lines of the prompt at which a block of text starts: its first line may
\* follow an indentation, its other lines are lines of the prompt
StartsOf(block) ==
    { k \in 1..(Len(prompt) - Len(block) + 1) :
        /\ Contains(prompt[k], block[1])
        /\ \A i \in 2..Len(block) : prompt[k + i - 1] = block[i] }

CorePrinciples == SubSeq(dss_system_prompt, 3, 8)

RulesReturned ==
    /\ retrieved # None
    /\ ~ Get(retrieved).raised
    /\ Get(retrieved).rules_text # EmptyStr

\* C15: the prompt that build_dss_prompt hands back has, in this order, the
\* system block with the five core principles, the preference guidance, the
\* financial narrative, the rules block, the user question and the closing
\* instructions; the rules block (its header and the passages) is there
\* exactly when retrieval returned a non-empty rules text.
C15_PromptOrder ==
    (pc = "llm_check" /\ stock_summary # None) =>
        LET guide == get_prompt_guidance(prefs)
            narrative == format_for_llm(stock_summary, prefs)
            system == StartsOf(dss_system_prompt)
            principles == StartsOf(CorePrinciples)
            guided == StartsOf(guide)
            narrated == StartsOf(narrative)
            asked == StartsOf(query.text)
            closing == StartsOf(ClosingInstructions)
            headers == StartsOf(<< RulesHeader >>)
        IN /\ \E s \in system, c \in principles, g \in guided, n \in narrated,
                 q \in asked, e \in closing :
                /\ s = 1 /\ s < c /\ c + 5 < g
                /\ g + Len(guide) <= n
                /\ n + Len(narrative) <= q
                /\ q + Len(query.text) <= e
                /\ e + Len(ClosingInstructions) - 1 = Len(prompt)
                /\ \A h \in headers : n + Len(narrative) <= h /\ h < q
                /\ RulesReturned =>
                     \E h \in headers, r \in StartsOf(Get(retrieved).rules_text) :
                         h < r /\ r + Len(Get(retrieved).rules_text) <= q
           /\ RulesReturned <=> headers # { }
           /\ RulesReturned <=> PromptHas(RuleMark)

\* C15 witness: a prompt was assembled after retrieval returned two passages
C15_Witness ==
    /\ pc = "llm_check" /\ stock_summary # None /\ RulesReturned
    /\ Len(Get(found)) = 2
    /\ PromptHas(RulesHeader)

NoDuplicates(s) == \A i, j \in 1..Len(s) : s[i] = s[j] => i = j

IsRuleLine(line) == Len(line) >= 3 /\ line[1] = W("[Rule") /\ line[3] = W("]")
RuleLinesUpTo(text, k) == { i \in 1..k : IsRuleLine(text[i]) }

\* the passages of `docs` are in `text` in rank order, the i-th behind the
\* label [Rule i]
NumberedInRankOrder(text, docs) ==
    /\ Cardinality(RuleLinesUpTo(text, Len(text))) = Len(docs)
    /\ \A k \in RuleLinesUpTo(text, Len(text)) :
         LET i == Cardinality(RuleLinesUpTo(text, k))
             content == StripStr(docs[i].page_content)
         IN /\ text[k][2] = N("d", i)
            /\ SubSeq(text[k], 4, Len(text[k])) = content[1]
            /\ \A l \in 2..Len(content) : text[k + l - 1] = content[l]

\* C16 (as stated): the source list that retrieve_rules returns has every
\* source at most once, and the passages are numbered in rank order.
C16_RetrieverSourcesOnce ==
    (retrieved # None /\ found # None) =>
        /\ NoDuplicates(Get(retrieved).sources)
        /\ NumberedInRankOrder(Get(retrieved).rules_text, Get(found))

\* C16 (amended): the source list that query_financial_dss returns has every
\* source of the retrieved passages exactly once, even when several passages
\* share a source; retrieve_rules numbers the passages [Rule 1]..[Rule n] in
\* rank order.
C16_ReturnedSourcesOnce ==
    /\ (retrieved # None /\ found # None) =>
         /\ Len(Get(found)) <= TopK
         /\ NumberedInRankOrder(Get(retrieved).rules_text, Get(found))
    /\ (pc = "done" /\ stock_summary # None /\ ~escaped) =>
         /\ NoDuplicates(Get(result).sources)
         /\ Range(Get(result).sources)
              = (IF found = None THEN { }
                 ELSE { SourceOf(Get(found)[i]) : i \in 1..Len(Get(found)) })

\* C16 witness: two passages of the same document were retrieved and the
\* request returned that document once
C16_Witness ==
    /\ pc = "done" /\ found # None /\ Len(Get(found)) = 2
    /\ Get(retrieved).sources = << "rules.pdf", "rules.pdf" >>
    /\ Get(result).sources = << "rules.pdf" >>

\* C17: retrieve_rules holds the index handle only between opening the index
\* and returning: whenever it has returned - passages found, none found, or an
\* exception after the index was opened - the handle has been released, and it
\* is "none" only when the index was never opened.
C17_HandleReleased ==
    /\ db = "open" => (pc = "retrieve_search" /\ retrieved = None)
    /\ retrieved # None =>
         /\ db # "open"
         /\ Invoked("similarity_search") <=> db = "released"

\* C17 witness: the search raised on an opened index of two passages and the
\* function returned with the handle released
C17_Witness ==
    /\ retrieved # None /\ found = None /\ Len(index) = 2
    /\ Invoked("similarity_search") /\ db = "released"

\* C18 (as stated): beta is covariance / variance of the aligned return series
\* (to two decimals), and is null whenever the benchmark is unavailable or the
\* benchmark returns have zero variance.
C18_BetaOrNull ==
    (pc \in { "metrics_done", "formatted" } /\ stock_summary # None) =>
        LET beta == Get(stock_summary).risk_metrics.beta
            spy == market.spy_risk
        IN IF spy.kind = "raise" \/ ~ spy.var_positive
           THEN beta = None
           ELSE beta = Some(RoundDiv(spy.ratio, 10))

\* the drawdown series, sample by sample: the close against the running peak
RunningPeak(close, t) == CHOOSE m \in { close[k] : k \in 2..t } : \A k \in 2..t : close[k] <= m
BelowFive(close, t) == (close[t] - RunningPeak(close, t)) * 100 < (0 - 5) * RunningPeak(close, t)
WithinOne(close, t) == (close[t] - RunningPeak(close, t)) * 100 >= (0 - 1) * RunningPeak(close, t)

\* one turn of the loop, as a step of a machine with the states open / not open
C19_Machine ==
    (pc = "scan" /\ scan'.t = scan.t + 1) =>
        LET close == market.close
            i == scan.t - 2
            before == scan.st
            after == scan'.st
            opens == ~ before.in_drawdown /\ after.in_drawdown
            closes == before.in_drawdown /\ ~ after.in_drawdown
        IN /\ opens <=> (BelowFive(close, scan.t) /\ ~ before.in_drawdown)
           /\ closes <=> (WithinOne(close, scan.t) /\ before.in_drawdown)
           /\ opens => (after.start = i /\ after.periods = before.periods)
           /\ closes => /\ after.periods = Append(before.periods, i - before.start)
                        /\ i - before.start >= 1
                        /\ after.start = before.start
           /\ (~ opens /\ ~ closes) =>
                (after.start = before.start /\ after.periods = before.periods)

C19_Result ==
    /\ pc \in { "scan", "scanned" } =>
         /\ SumSeq(scan.st.periods) + Len(scan.st.periods) <= scan.t - 2
         /\ scan.st.in_drawdown =>
              scan.st.start >= SumSeq(scan.st.periods) + Len(scan.st.periods)
    /\ pc = "scanned" =>
         LET close == market.close
             periods == scan.st.periods
         IN /\ scan.st = DrawdownScan(close)
            /\ scan.avg = (IF periods = << >> THEN None
                           ELSE Some(SumSeq(periods) \div Len(periods)))
            /\ (\A t \in 2..Len(close) : ~ BelowFive(close, t)) => scan.avg = None
            /\ scan.avg # None => Get(scan.avg) >= 1

\* C19: the recovery scan is a two-state machine: an episode opens at a sample
\* below -5% while none is open and closes at the first later sample at or
\* above -1%; episodes do not overlap; a closed episode adds close index - open
\* index, at least 1; the value reported is the truncated mean of these
\* lengths, and null if no episode ever opened.
C19_RecoveryScan == [] C19_Result /\ [][C19_Machine]_vars

\* C19 witness: two episodes of 1 and 2 samples were closed, one of them over
\* a sample at exactly -5%, and the mean 1.5 was reported as 1
C19_Witness ==
    /\ pc = "scanned"
    /\ market.close = << 100, 100, 94, 100, 94, 95, 99 >>
    /\ scan.st.periods = << 1, 2 >>
    /\ scan.avg = Some(1)

\* the mean of `recent` (a sum of rn values) against the mean of `prior` (a sum
\* of pn values) and a band of pct percent around it
Above(recent, rn, prior, pn, pct) == recent * pn * 100 > prior * rn * (100 + pct)
Below(recent, rn, prior, pn, pct) == recent * pn * 100 < prior * rn * (100 - pct)

TrendOf(enough, above, below, up, down, mid) ==
    IF ~ enough THEN "insufficient_data"
    ELSE IF above THEN up
    ELSE IF below THEN down
    ELSE mid

\* C20: a trend field is insufficient_data exactly when the history is shorter
\* than 126 (price trend), 63 (volume trend) or 50 samples (position against
\* the 50-day average); otherwise the recent mean is set against the reference
\* and a strict band of 5%, 20% or 2% around it: above the band rising /
\* increasing / above, below it declining / decreasing / below, and inside it
\* or on either boundary stable / near.
C20_TrendBands ==
    (pc \in { "metrics_done", "formatted" } /\ stock_summary # None) =>
        LET trends == Get(stock_summary).trends
            close == market.close
            volume == market.volume
            n == Len(close)
        IN /\ trends.price_trend_3m =
                TrendOf(n >= 126,
                        n >= 126 /\ Above(SumBack(close, 63, 0), 63, SumBack(close, 126, 63), 63, 5),
                        n >= 126 /\ Below(SumBack(close, 63, 0), 63, SumBack(close, 126, 63), 63, 5),
                        "rising", "declining", "stable")
           /\ trends.volume_trend =
                TrendOf(n >= 63,
                        n >= 63 /\ Above(SumBack(volume, 21, 0), 21, SumBack(volume, 63, 21), 42, 20),
                        n >= 63 /\ Below(SumBack(volume, 21, 0), 21, SumBack(volume, 63, 21), 42, 20),
                        "increasing", "decreasing", "stable")
           /\ trends.position_vs_50day_avg =
                TrendOf(n >= 50,
                        n >= 50 /\ Above(close[n], 1, SumBack(close, 50, 0), 50, 2),
                        n >= 50 /\ Below(close[n], 1, SumBack(close, 50, 0), 50, 2),
                        "above", "below", "near")

\* C20 witness: the last 63 closes are exactly 5% above the 63 before them and
\* the price trend is stable
C20_Witness ==
    /\ pc = "metrics_done" /\ stock_summary # None
    /\ market.close = StepSeries(126, 63, 100, 105)
    /\ Get(stock_summary).trends.price_trend_3m = "stable"
    /\ Get(stock_summary).trends.volume_trend = "stable"
    /\ Get(stock_summary).trends.position_vs_50day_avg = "near"

\* the contextual sentences that speak of a low, a moderate and a high volatility
BandSentences(volatility) == { get_volatility_context(volatility, t) : t \in RiskTolerances }
\* the band a contextual sentence speaks of, named as the classification names it
SentenceBand(sentence) ==
    IF sentence \in BandSentences(Num(0)) THEN "Low"
    ELSE IF sentence \in BandSentences(Num(10 * LowVolatility)) THEN "Moderate"
    ELSE "High"

\* C21 (as stated): for every volatility and every risk tolerance the band of
\* the narrative's contextual sentence (low / moderate / high volatility) is
\* the risk classification (Low / Moderate / High) printed for the same
\* summary.
C21_SameBand ==
    (pc = "formatted" /\ stock_summary # None) =>
        \A sentence \in ContextSentences(financial_context) :
            SentenceBand(sentence) = Get(stock_summary).risk_metrics.risk_classification

\* the identifiers in the available-model list
ModelIds(models) == { Get(models[i]) : i \in { k \in 1..Len(models) : ~ IsNone(models[k]) } }

\* the step that invokes the primary backend, and the model it is invoked with
PrimaryInvoked == pc = "llm_primary" /\ Len(calls') = Len(calls) + 1
InvokedModel == calls'[Len(calls')].model

C22_Selected ==
    PrimaryInvoked =>
        /\ InvokedModel \in ModelIds(ollama.models)
        /\ DefaultModel \in ModelIds(ollama.models) => InvokedModel = DefaultModel
        /\ DefaultModel \notin ModelIds(ollama.models) => InvokedModel = Get(ollama.models[1])

C22_Skipped ==
    /\ Invoked("ollama_invoke") => tier.primary # "unavailable"
    /\ pc = "llm_primary" => (ollama.running /\ ollama.models # << >>)

\* C22 (as stated): the primary backend is invoked with the default model
\* llama3.2 if that model is among the available models and with the first
\* available model otherwise, in both cases with an identifier of the list;
\* when the list is empty or the service is unreachable the primary tier is
\* skipped without being invoked.
C22_ModelFromList == [] C22_Skipped /\ [][C22_Selected]_vars

\* what the market-data service, the metrics engine and the preference
\* interpreter would have left behind
NoFinancialWork ==
    /\ ~ Invoked("market")
    /\ market = NoMarket /\ stock_summary = None /\ financial_context = EmptyStr
    /\ metric = NoMetric /\ guidance = None /\ scan = NoScan /\ reqs = NoRequests /\ engines = NoEngines
    /\ prompt = EmptyStr /\ rules_context = EmptyStr

\* C23: query_rag never calls the market-data service, the metrics engine or
\* the preference interpreter; without the index it returns the explanatory
\* message and no sources, opening nothing and calling no backend; when the
\* search finds nothing it returns a message and no sources; on every path
\* that opened the index the handle is released when the function is left.
C23_LegacyEntry ==
    /\ NoFinancialWork
    /\ db = "open" => pc \in { "rag_search", "rag_generate", "rag_fallback" }
    /\ pc = "done" =>
         /\ db # "open"
         /\ Invoked("chroma_open") /\ db = "none" => escaped
         /\ ~ escaped <=> result # None
         /\ ~ chroma_exists =>
              /\ result = Some([response_text |-> Lines(DatabaseNotFound), sources |-> << >>])
              /\ calls = << >> /\ db = "none"
         /\ found = Some(<< >>) =>
              /\ result = Some([response_text |-> Lines(NoDocuments), sources |-> << >>])
              /\ db = "released"
              /\ ~ Invoked("ollama_tags") /\ ~ Invoked("ollama_invoke")


\* C23 witness: the index was opened, the search found nothing, and the
\* message came back with the handle released
C23_Witness ==
    /\ pc = "done" /\ chroma_exists /\ Len(index) = 2
    /\ found = Some(<< >>) /\ db = "released"
    /\ Get(result).sources = << >>

\* the prompt and the results of one request that runs alone on its inputs
AlonePrompt(req) ==
    LET s == get_stock_summary(req.query.ticker, req.market).value
        pair == IF req.search = None THEN EmptyPair ELSE retrieve_rules(Get(req.search))
    IN build_dss_prompt(req.query.text, format_for_llm(s, req.prefs),
                        IF pair.rules_text # EmptyStr THEN RulesContext(pair.rules_text)
                        ELSE EmptyStr,
                        get_prompt_guidance(req.prefs))
AloneResults(req) ==
    LET s == get_stock_summary(req.query.ticker, req.market).value
        pair == IF req.search = None THEN EmptyPair ELSE retrieve_rules(Get(req.search))
    IN IF s = None
       THEN { [response_text |-> Lines(UnableMessage(req.query.ticker)),
               sources |-> << >>, stock_summary |-> None] }
       ELSE { [response_text |-> QueryLlm(AlonePrompt(req), req.backend),
               sources |-> srcs, stock_summary |-> s] :
                srcs \in UniqueSources(pair.sources) }

C24_SameAsAlone ==
    \A r \in Requests :
        /\ reqs[r].pc \in { "generate", "return" } => reqs[r].prompt = AlonePrompt(reqs[r])
        /\ reqs[r].pc = "done" => Get(reqs[r].result) \in AloneResults(reqs[r])

C24_OwnStateOnly ==
    \A r, o \in Requests :
        (r # o /\ reqs'[r] # reqs[r]) =>
            /\ reqs'[o] = reqs[o]
            /\ engines'[EngineOf(o)] = engines[EngineOf(o)]

\* C24: two requests for different tickers and preferences whose steps
\* interleave in any order each hand the generator the prompt, and return the
\* result, of the same request run alone on the same answers of the services;
\* a step of one request changes neither the locals nor the preference engine
\* of the other.
C24_Independent == [] C24_SameAsAlone /\ [][C24_OwnStateOnly]_vars

\* C24 witness: both requests returned; the second built its engine, for other
\* preferences, after the first built its own and before the first read it
C24_Witness ==
    /\ \A r \in Requests : reqs[r].pc = "done" /\ Get(reqs[r].result).stock_summary # None
    /\ reqs[1].prefs.risk_tolerance # reqs[2].prefs.risk_tolerance
    /\ reqs[1].search # None /\ reqs[2].backend # None /\ reqs[1].backend = None

RiskClasses == { "Low", "Moderate", "High" }

\* C25: for a non-empty history with fewer than 2 points, from which no daily
\* return can be formed, the summary carries no numeric volatility and no risk
\* classification derived from one (it is not High or Low by default), and
\* its percentage fields are null and not a default number.
C25_InsufficientData ==
    (pc \in { "metrics_done", "formatted" } /\ stock_summary # None /\ Len(market.close) < 2) =>
        LET s == Get(stock_summary)
        IN /\ s.risk_metrics.volatility_annual.nan
           /\ s.risk_metrics.risk_classification \notin RiskClasses
           /\ s.performance.return_1m = None /\ s.performance.return_3m = None
           /\ s.performance.return_6m = None /\ s.performance.return_1y = None
           /\ s.performance.vs_sp500_1y = None

\* the highest close of the history up to day t, the first close included
PeakSinceFirst(close, t) ==
    CHOOSE m \in { close[k] : k \in 1..t } : \A k \in 1..t : close[k] <= m
\* the decline of day t from that peak, in tenths of a percent
DeclineAt(close, t) ==
    RoundDiv((close[t] - PeakSinceFirst(close, t)) * 1000, PeakSinceFirst(close, t))
PeakToTrough(close) ==
    CHOOSE d \in { DeclineAt(close, t) : t \in 1..Len(close) } :
        \A t \in 1..Len(close) : d <= DeclineAt(close, t)

\* C26: for every price history with at least two closes the reported maximum
\* drawdown is at most 0 and is the largest peak-to-trough decline of the
\* closes, min over t of (close[t] - max(close[0..t])) / max(close[0..t]) x 100,
\* the running peak including the first close of the history.
C26_PeakToTrough ==
    (pc = "scanned" /\ Len(market.close) >= 2) =>
        /\ scan.st.min <= 0
        /\ scan.st.min = PeakToTrough(market.close)
        /\ MaxDrawdown(market.close) = Num(scan.st.min)

\* volatility bullets first, return bullets next, sector bullets last
Grouped(bullets) ==
    \E a, b \in 0..Len(bullets) :
        /\ a <= b
        /\ \A i \in 1..Len(bullets) :
             IF i <= a THEN IsVolatilityLine(bullets[i])
             ELSE IF i <= b THEN IsReturnLine(bullets[i])
             ELSE IsSectorLine(bullets[i])

\* C27: the bullets of the deterministic fallback are lines of the
\* financial-narrative block of the prompt, so that the fallback text is the
\* same whatever the question, the rules and the preference guidance of the
\* prompt are; they are grouped as volatility, return and sector lines between
\* the fixed header and the fixed disclaimer.
C27_FactsOnly ==
    (pc = "llm_return" /\ response # None /\ Get(response).tier = "fallback"
       /\ stock_summary # None) =>
        LET narrative == format_for_llm(stock_summary, prefs)
            text == Get(response).text.lines
            bullets == SubSeq(text, Len(FallbackHeader) + 1, Len(text) - Len(FallbackFooter))
        IN /\ text = FallbackHeader \o bullets \o FallbackFooter
           /\ Grouped(bullets)
           /\ \A i \in 1..Len(bullets) :
                \E k \in 1..Len(narrative) : bullets[i] = Bullet(narrative[k])
           /\ text = generate_structured_fallback(narrative)

\* a drawdown episode opened: some sample of the drawdown series is below -5%
EpisodeOpened(close) == \E t \in 2..Len(close) : BelowFive(close, t)

\* C28: the average drawdown-recovery length is non-null whenever a drawdown
\* episode opened in the history, also when the episode is still open at the
\* last sample; and whenever the value is non-null the narrative has the
\* 'Average Recovery Time' line with it.
C28_RecoveryReported ==
    (pc = "formatted" /\ stock_summary # None) =>
        LET avg == Get(stock_summary).risk_metrics.avg_recovery_days
        IN /\ EpisodeOpened(market.close) => avg # None
           /\ avg # None =>
                Reports(financial_context, "Average Recovery Time", N("repr", Get(avg)))

=============================================================================
